---- MODULE Spec2Model ----
(***************************************************************************)
(* Calendar analysis scripts: the ICS parser and field decoder, the event  *)
(* accessors, the rule-based classifier and the aggregation folds, as      *)
(* state machines over Python values.                                      *)
(*                                                                         *)
(* A Python str is modelled as a sequence of one-character strings, so     *)
(* that slicing, searching, stripping and case folding are computed and    *)
(* not assumed.  A code point outside ASCII is one element of the form     *)
(* "U+xxxx".  None is the empty tuple and a present value v is <<v>>.      *)
(***************************************************************************)
EXTENDS Integers, Sequences, FiniteSets, TLC

VARIABLES
    \* parse_ics_file (stakeholder_analysis.py)
    lines,               \* the physical lines the loop has read so far
    events,              \* events
    current_event,       \* current_event: <<>> is None, <<e>> an open event
    current_field,       \* current_field: <<>> is None, <<f>> a field spec
    continuation_value,  \* continuation_value
    pc,                  \* "reading", "done" (returned), "raised"
    \* categorize_event_final and the work-relevance filters
    event,               \* the event handed to the classifier
    category,            \* <<>> before the first call, then <<label>>
    relevant,            \* <<>> or <<is_work_relevant(event)>>
    calls,               \* number of classifier calls made on event
    \* the aggregation folds: analyze_calendar, main of rerun_analysis_improved.py
    \* analyze_stakeholders and analyze_time_patterns, each over the parsed event
    \* list, and the reports printed from their results
    agg_pc,              \* which function runs and where it is
    agg_events,          \* events: the list handed to the function
    agg_i,               \* number of events its loop has consumed
    categorized,         \* main: categorized
    main_totals,         \* main: total_events, work_events, ..., <<>> until computed
    output,              \* main: output, <<>> until built
    cal_categories,      \* analyze_calendar: categories
    stats,               \* analyze_calendar: stats
    work_events,         \* analyze_stakeholders: work_events
    stakeholder_meetings,\* analyze_stakeholders: stakeholder_meetings
    organizer_stats,     \* analyze_stakeholders: organizer_stats
    time_stats           \* analyze_time_patterns: stats

parser_vars == <<lines, events, current_event, current_field, continuation_value, pc>>
classifier_vars == <<event, category, relevant, calls>>
agg_vars == <<agg_pc, agg_events, agg_i, categorized, main_totals, output,
              cal_categories, stats, work_events, stakeholder_meetings, organizer_stats,
              time_stats>>
vars == <<parser_vars, classifier_vars, agg_vars>>

----------------------------------------------------------------------------
(* Python str operations *)

\* the characters str.strip() removes and the regex class \s matches
Whitespace == {" ", "\t", "\n", "\r", "\f"}

UpperCase == <<"A","B","C","D","E","F","G","H","I","J","K","L","M",
               "N","O","P","Q","R","S","T","U","V","W","X","Y","Z">>
LowerCase == <<"a","b","c","d","e","f","g","h","i","j","k","l","m",
               "n","o","p","q","r","s","t","u","v","w","x","y","z">>
Digits == {"0","1","2","3","4","5","6","7","8","9"}

\* code points outside ASCII (en dash, e acute)
NonAscii == {"U+2013", "U+00E9"}

\* as Min, always the first of the two
Min_left(a, b) == a

Min(a, b) == IF a <= b THEN a ELSE b

IndexIn(c, table) == CHOOSE i \in 1..Len(table) : table[i] = c

lower_char(c) ==
    IF \E i \in 1..Len(UpperCase) : UpperCase[i] = c
    THEN LowerCase[IndexIn(c, UpperCase)] ELSE c

upper_char(c) ==
    IF \E i \in 1..Len(LowerCase) : LowerCase[i] = c
    THEN UpperCase[IndexIn(c, LowerCase)] ELSE c

is_letter(c) ==
    \E i \in 1..Len(UpperCase) : UpperCase[i] = c \/ LowerCase[i] = c

\* s.lower()
lower(s) == [i \in 1..Len(s) |-> lower_char(s[i])]

\* as title with the letter case left as it is
title_as_is(s) == s

\* s.title(): a letter is upper-cased after a non-letter, lower-cased after a letter
title(s) ==
    [i \in 1..Len(s) |->
        IF i > 1 /\ is_letter(s[i - 1]) THEN lower_char(s[i]) ELSE upper_char(s[i])]

\* s.startswith(p), s.endswith(p)
startswith(s, p) == Len(s) >= Len(p) /\ SubSeq(s, 1, Len(p)) = p
endswith(s, p) == Len(s) >= Len(p) /\ SubSeq(s, Len(s) - Len(p) + 1, Len(s)) = p

\* the 1-based positions where p occurs in s
Occurrences(s, p) ==
    {i \in 1..(Len(s) - Len(p) + 1) : SubSeq(s, i, i + Len(p) - 1) = p}

SetMin(I) == CHOOSE i \in I : \A j \in I : i <= j
SetMax(I) == CHOOSE i \in I : \A j \in I : i >= j

\* p in s
contains(s, p) == Occurrences(s, p) # {}

\* s.split(p, 1): <<s>> when p does not occur, else <<before, after>> the first p
split1(s, p) ==
    IF ~contains(s, p) THEN <<s>>
    ELSE LET i == SetMin(Occurrences(s, p))
         IN <<SubSeq(s, 1, i - 1), SubSeq(s, i + Len(p), Len(s))>>

\* s.split(p)[0]
split_first(s, p) == split1(s, p)[1]

\* s.split(p)[-1]: what follows the last occurrence of p
split_last(s, p) ==
    IF ~contains(s, p) THEN s
    ELSE SubSeq(s, SetMax(Occurrences(s, p)) + Len(p), Len(s))

\* s.split(p): every piece, for a one-character separator
RECURSIVE split(_, _)
split(s, p) ==
    IF ~contains(s, p) THEN <<s>>
    ELSE <<split1(s, p)[1]>> \o split(split1(s, p)[2], p)

RECURSIVE lstrip_chars(_, _)
lstrip_chars(s, cs) ==
    IF s # <<>> /\ Head(s) \in cs THEN lstrip_chars(Tail(s), cs) ELSE s

RECURSIVE rstrip_chars(_, _)
rstrip_chars(s, cs) ==
    IF s # <<>> /\ s[Len(s)] \in cs
    THEN rstrip_chars(SubSeq(s, 1, Len(s) - 1), cs) ELSE s

\* s.strip(): leading and trailing whitespace removed
strip(s) == rstrip_chars(lstrip_chars(s, Whitespace), Whitespace)

\* s.lstrip()
lstrip(s) == lstrip_chars(s, Whitespace)

\* s.encode('ascii', 'ignore').decode('ascii')
ascii_ignore(s) == SelectSeq(s, LAMBDA c : c \notin NonAscii)

\* the longest prefix of s[from..] whose characters all satisfy ok (a greedy class+)
RunFrom(s, from, ok(_)) ==
    LET stops == {j \in from..Len(s) : ~ok(s[j])}
        last == IF stops = {} THEN Len(s) ELSE SetMin(stops) - 1
    IN SubSeq(s, from, last)

\* re.search(prefix + class+, s): <<>> for no match, else <<group 1>>, where
\* the group is the run of class characters after the first prefix that has one
search_after(s, prefix, ok(_)) ==
    LET hits == {i \in Occurrences(s, prefix) :
                    i + Len(prefix) <= Len(s) /\ ok(s[i + Len(prefix)])}
    IN IF hits = {} THEN <<>>
       ELSE <<RunFrom(s, SetMin(hits) + Len(prefix), ok)>>

not_space(c) == c \notin Whitespace
not_delim(c) == c \notin {";", ":"}
not_quote_delim(c) == c \notin {"\"", ";", ":"}

\* re.search(r'mailto:([^\s]+)', value)
mailto_match(value) == search_after(value, <<"m","a","i","l","t","o",":">>, not_space)

\* re.search(r'PARTSTAT=([^;:]+)', field)
partstat_match(field) == search_after(field, <<"P","A","R","T","S","T","A","T","=">>, not_delim)

\* re.search(r'CN="?([^";:]+)"?', field): the optional quote is taken when the
\* name follows it; a match needs a name character after CN= or after CN="
cn_match(field) ==
    LET start(i) == IF i + 3 <= Len(field) /\ field[i + 3] = "\"" THEN i + 4 ELSE i + 3
        hits == {i \in Occurrences(field, <<"C","N","=">>) :
                    start(i) <= Len(field) /\ not_quote_delim(field[start(i)])}
    IN IF hits = {} THEN <<>>
       ELSE <<RunFrom(field, start(SetMin(hits)), not_quote_delim)>>

----------------------------------------------------------------------------
(* CalendarEvent and the field decoder *)

DescriptionLimit == 500
ViewerEmail == <<"d","a","n","i","e","l",".","m","o","r","e","i","r","a","@","a","u","t","o","d","e","s","k",".","c","o","m">>

\* CalendarEvent.__init__
CalendarEvent ==
    [summary |-> <<>>, dtstart |-> <<>>, dtend |-> <<>>, description |-> <<>>,
     location |-> <<>>, organizer |-> <<>>, organizer_name |-> <<>>,
     attendees |-> <<>>, categories |-> <<>>, status |-> <<>>,
     busy_status |-> <<>>, transp |-> <<>>, created |-> <<>>, uid |-> <<>>,
     is_recurring |-> FALSE, recurrence_id |-> <<>>]

\* the attendee_info dict of an ATTENDEE line with a mailto: address
attendee_info(field, value) ==
    LET email == mailto_match(value)[1]
    IN [email |-> email,
        name |-> IF cn_match(field) # <<>> THEN cn_match(field)[1]
                 ELSE split_first(email, <<"@">>),
        status |-> IF partstat_match(field) # <<>> THEN partstat_match(field)[1]
                   ELSE <<"U","N","K","N","O","W","N">>]

\* the field names whose branch of process_field assigns to the event
KnownFields ==
    {<<"S","U","M","M","A","R","Y">>, <<"D","T","S","T","A","R","T">>, <<"D","T","E","N","D">>, <<"D","E","S","C","R","I","P","T","I","O","N">>, <<"L","O","C","A","T","I","O","N">>, <<"O","R","G","A","N","I","Z","E","R">>,
     <<"A","T","T","E","N","D","E","E">>, <<"C","A","T","E","G","O","R","I","E","S">>, <<"X","-","M","I","C","R","O","S","O","F","T","-","C","D","O","-","B","U","S","Y","S","T","A","T","U","S">>, <<"T","R","A","N","S","P">>,
     <<"C","R","E","A","T","E","D">>, <<"U","I","D">>, <<"R","R","U","L","E">>, <<"R","E","C","U","R","R","E","N","C","E","-","I","D">>}

\* process_field's elif chain on a field name it knows
decode_known(e, field, value) ==
    LET field_name == split_first(field, <<";">>)
    IN CASE field_name = <<"S","U","M","M","A","R","Y">> -> [e EXCEPT !.summary = ascii_ignore(value)]
         [] field_name = <<"D","T","S","T","A","R","T">> -> [e EXCEPT !.dtstart = field \o <<":">> \o value]
         [] field_name = <<"D","T","E","N","D">> -> [e EXCEPT !.dtend = field \o <<":">> \o value]
         [] field_name = <<"D","E","S","C","R","I","P","T","I","O","N">> ->
                [e EXCEPT !.description =
                    SubSeq(value, 1, Min(Len(value), DescriptionLimit))]
         [] field_name = <<"L","O","C","A","T","I","O","N">> -> [e EXCEPT !.location = value]
         [] field_name = <<"O","R","G","A","N","I","Z","E","R">> ->
                [e EXCEPT
                    !.organizer = IF mailto_match(value) # <<>>
                                  THEN mailto_match(value)[1] ELSE @,
                    !.organizer_name = IF cn_match(field) # <<>>
                                       THEN cn_match(field)[1] ELSE @]
         [] field_name = <<"A","T","T","E","N","D","E","E">> ->
                [e EXCEPT
                    !.status = IF contains(lower(value), ViewerEmail)
                                  /\ partstat_match(field) # <<>>
                               THEN partstat_match(field)[1] ELSE @,
                    !.attendees = IF mailto_match(value) # <<>>
                                  THEN Append(@, attendee_info(field, value)) ELSE @]
         [] field_name = <<"C","A","T","E","G","O","R","I","E","S">> ->
                [e EXCEPT !.categories =
                    [i \in 1..Len(split(value, <<",">>)) |-> strip(split(value, <<",">>)[i])]]
         [] field_name = <<"X","-","M","I","C","R","O","S","O","F","T","-","C","D","O","-","B","U","S","Y","S","T","A","T","U","S">> -> [e EXCEPT !.busy_status = value]
         [] field_name = <<"T","R","A","N","S","P">> -> [e EXCEPT !.transp = value]
         [] field_name = <<"C","R","E","A","T","E","D">> -> [e EXCEPT !.created = value]
         [] field_name = <<"U","I","D">> -> [e EXCEPT !.uid = value]
         [] field_name = <<"R","R","U","L","E">> -> [e EXCEPT !.is_recurring = TRUE]
         [] field_name = <<"R","E","C","U","R","R","E","N","C","E","-","I","D">> -> [e EXCEPT !.recurrence_id = value]

\* as process_field with the last elif written as a bare else
process_field_else(e, field, value) ==
    IF split_first(field, <<";">>) \in KnownFields
    THEN decode_known(e, field, value)
    ELSE [e EXCEPT !.recurrence_id = value]

\* process_field(event, field, value): the event after the call; a field name
\* outside the elif chain leaves the event as it is
process_field(e, field, value) ==
    IF split_first(field, <<";">>) \in KnownFields
    THEN decode_known(e, field, value)
    ELSE e

----------------------------------------------------------------------------
(* CalendarEvent accessors *)

DigitSeq == <<"0","1","2","3","4","5","6","7","8","9">>
digit_value(c) == IndexIn(c, DigitSeq) - 1

\* int(s) for a string of digits
RECURSIVE to_int(_)
to_int(s) ==
    IF s = <<>> THEN 0
    ELSE 10 * to_int(SubSeq(s, 1, Len(s) - 1)) + digit_value(s[Len(s)])

all_digits(s) == \A i \in 1..Len(s) : s[i] \in Digits

\* s.split('TZID=')[-1] if 'TZID=' in s else s
after_tzid(s) == IF contains(s, <<"T","Z","I","D","=">>) THEN split_last(s, <<"T","Z","I","D","=">>) ELSE s

\* re.search(r'(\d{8}T\d{6})', s): <<>> or <<the first 15-character token>>
datetime_match(s) ==
    LET hits == {i \in 1..(Len(s) - 14) :
                    /\ all_digits(SubSeq(s, i, i + 7))
                    /\ s[i + 8] = "T"
                    /\ all_digits(SubSeq(s, i + 9, i + 14))}
    IN IF hits = {} THEN <<>> ELSE <<SubSeq(s, SetMin(hits), SetMin(hits) + 14)>>

\* re.search(r'(\d{8})', s): <<>> or <<the first 8 digits in a row>>
date_match(s) ==
    LET hits == {i \in 1..(Len(s) - 7) : all_digits(SubSeq(s, i, i + 7))}
    IN IF hits = {} THEN <<>> ELSE <<SubSeq(s, SetMin(hits), SetMin(hits) + 7)>>

is_leap(y) == (y % 4 = 0 /\ y % 100 # 0) \/ y % 400 = 0

days_in_month(y, m) ==
    IF m = 2 THEN (IF is_leap(y) THEN 29 ELSE 28)
    ELSE IF m \in {4, 6, 9, 11} THEN 30 ELSE 31

\* datetime accepts the year, month and day
valid_date(y, m, d) == y >= 1 /\ m >= 1 /\ m <= 12 /\ d >= 1 /\ d <= days_in_month(y, m)

\* days from 0001-01-01 to y-m-d (date.toordinal)
RECURSIVE days_before_month(_, _)
days_before_month(y, m) ==
    IF m <= 1 THEN 0 ELSE days_before_month(y, m - 1) + days_in_month(y, m - 1)

to_ordinal(y, m, d) ==
    LET p == y - 1
    IN p * 365 + (p \div 4) - (p \div 100) + (p \div 400) + days_before_month(y, m) + d

\* datetime.strptime(tok, '%Y%m%dT%H%M%S') succeeds on a 15-character token
valid_datetime(tok) ==
    /\ valid_date(to_int(SubSeq(tok, 1, 4)), to_int(SubSeq(tok, 5, 6)),
                  to_int(SubSeq(tok, 7, 8)))
    /\ to_int(SubSeq(tok, 10, 11)) <= 23
    /\ to_int(SubSeq(tok, 12, 13)) <= 59
    /\ to_int(SubSeq(tok, 14, 15)) <= 59

\* the proleptic day number of the parsed token's date
ordinal_of(tok) ==
    to_ordinal(to_int(SubSeq(tok, 1, 4)), to_int(SubSeq(tok, 5, 6)),
               to_int(SubSeq(tok, 7, 8)))

\* the seconds since midnight of the parsed token's time
second_of_day(tok) ==
    to_int(SubSeq(tok, 10, 11)) * 3600
    + to_int(SubSeq(tok, 12, 13)) * 60
    + to_int(SubSeq(tok, 14, 15))

\* (end - start).total_seconds() of two parsed tokens
total_seconds(end_tok, start_tok) ==
    (ordinal_of(end_tok) - ordinal_of(start_tok)) * 86400
    + second_of_day(end_tok) - second_of_day(start_tok)

\* one hour, in the unit get_duration_hours is counted in
Hour == 3600

\* CalendarEvent.get_duration_hours, in units of 1/3600 hour:
\* (end - start).total_seconds(), which the code then divides by 3600
get_duration_hours(e) ==
    LET start_match == datetime_match(after_tzid(e.dtstart))
        end_match == datetime_match(after_tzid(e.dtend))
    IN IF start_match # <<>> /\ end_match # <<>>
          /\ valid_datetime(start_match[1]) /\ valid_datetime(end_match[1])
       THEN total_seconds(end_match[1], start_match[1])
       ELSE 0

\* CalendarEvent.get_date: 'YYYY-MM-DD', or '' when there is no valid date
get_date(e) ==
    LET date_m == date_match(after_tzid(e.dtstart))
    IN IF date_m # <<>>
          /\ valid_date(to_int(SubSeq(date_m[1], 1, 4)), to_int(SubSeq(date_m[1], 5, 6)),
                        to_int(SubSeq(date_m[1], 7, 8)))
       THEN SubSeq(date_m[1], 1, 4) \o <<"-">> \o SubSeq(date_m[1], 5, 6)
            \o <<"-">> \o SubSeq(date_m[1], 7, 8)
       ELSE <<>>

\* CalendarEvent.get_month: date[:7]
get_month(e) ==
    IF get_date(e) # <<>> THEN SubSeq(get_date(e), 1, 7) ELSE <<>>

\* re.search(r'T(\d{2})\d{4}', s): <<>> or <<the two digits after the first such T>>
time_match(s) ==
    LET hits == {i \in 1..(Len(s) - 6) :
                    s[i] = "T" /\ all_digits(SubSeq(s, i + 1, i + 6))}
    IN IF hits = {} THEN <<>> ELSE <<SubSeq(s, SetMin(hits) + 1, SetMin(hits) + 2)>>

\* CalendarEvent.get_time_of_day
get_time_of_day(e) ==
    LET m == time_match(after_tzid(e.dtstart))
        hour == to_int(m[1])
    IN IF m = <<>> THEN <<"U","n","k","n","o","w","n">>
       ELSE IF hour < 6 THEN <<"N","i","g","h","t"," ","(","0","0",":","0","0","-","0","6",":","0","0",")">>
       ELSE IF hour < 9 THEN <<"E","a","r","l","y"," ","M","o","r","n","i","n","g"," ","(","0","6",":","0","0","-","0","9",":","0","0",")">>
       ELSE IF hour < 12 THEN <<"M","o","r","n","i","n","g"," ","(","0","9",":","0","0","-","1","2",":","0","0",")">>
       ELSE IF hour < 14 THEN <<"L","u","n","c","h"," ","(","1","2",":","0","0","-","1","4",":","0","0",")">>
       ELSE IF hour < 17 THEN <<"A","f","t","e","r","n","o","o","n"," ","(","1","4",":","0","0","-","1","7",":","0","0",")">>
       ELSE IF hour < 20 THEN <<"E","v","e","n","i","n","g"," ","(","1","7",":","0","0","-","2","0",":","0","0",")">>
       ELSE <<"N","i","g","h","t"," ","(","2","0",":","0","0","-","2","4",":","0","0",")">>

\* strftime('%A'): the day names, Monday first
DayNames ==
    <<<<"M","o","n","d","a","y">>, <<"T","u","e","s","d","a","y">>, <<"W","e","d","n","e","s","d","a","y">>, <<"T","h","u","r","s","d","a","y">>, <<"F","r","i","d","a","y">>, <<"S","a","t","u","r","d","a","y">>,
      <<"S","u","n","d","a","y">>>>

\* CalendarEvent.get_day_of_week
get_day_of_week(e) ==
    LET date == get_date(e)
    IN IF date = <<>> THEN <<"U","n","k","n","o","w","n">>
       ELSE DayNames[((to_ordinal(to_int(SubSeq(date, 1, 4)), to_int(SubSeq(date, 6, 7)),
                                  to_int(SubSeq(date, 9, 10))) + 6) % 7) + 1]

----------------------------------------------------------------------------
(* parse_ics_file: one action per iteration of `for line in f` *)

\* longest input the model reads
MaxLines == 5

\* the physical lines a file may hold, each with its line terminator
RawLines ==
    {<<"B","E","G","I","N",":","V","E","V","E","N","T","\n">>, <<"E","N","D",":","V","E","V","E","N","T","\n">>,
     <<"S","U","M","M","A","R","Y",":","C","u","s","t","o","m","e","r","\n">>,
     <<"D","T","S","T","A","R","T",":","2","0","2","5","0","1","0","1","T","0","9","0","0","0","0","\n">>,
     <<"D","T","S","T","A","R","T",":","2","0","2","5","0","1","0","1","T","0","9","=","\n">>,
     <<"D","T","E","N","D",":","2","0","2","5","0","1","0","1","T","1","0","0","0","0","0","\n">>,
     <<" ","0","0","0","0","\n">>,
     <<"g","a","r","b","a","g","e","\n">>,
     <<"X","-","F","O","O",":","1","\n">>}

\* line.rstrip('\n\r')
rstrip_newline(raw) == rstrip_chars(raw, {"\n", "\r"})

\* a str or None used as a condition: not None and not ''
truthy(opt) == opt # <<>> /\ opt[1] # <<>>

\* line.startswith((' ', '\t')) and current_field
is_continuation(line, field) ==
    (startswith(line, <<" ">>) \/ startswith(line, <<"\t">>)) /\ truthy(field)

\* as has_pending with the test on the accumulated value inverted
has_pending_blank(field, value) == truthy(field) /\ value = <<>>

\* as has_pending with the decode of a pending field left out of the loop
has_pending_never(field, value) == FALSE

\* current_field and continuation_value
has_pending(field, value) == truthy(field) /\ value # <<>>

\* line == "BEGIN:VEVENT"
is_begin(line) == line = <<"B","E","G","I","N",":","V","E","V","E","N","T">>

\* line == "END:VEVENT" and current_event
is_end(line, ev) == line = <<"E","N","D",":","V","E","V","E","N","T">> /\ ev # <<>>

\* current_event and ':' in line
is_field(line, ev) == ev # <<>> /\ contains(line, <<":">>)

\* line.endswith('=')
is_folded(line) == endswith(line, <<"=">>)

\* field, value = line.split(':', 1)
FieldOf(l) == split1(l, <<":">>)[1]
ValueOf(l) == split1(l, <<":">>)[2]

\* process_field(None, field, value) raises AttributeError when its branch assigns
assigns(field, value) ==
    LET field_name == split_first(field, <<";">>)
    IN \/ field_name \in KnownFields \ {<<"O","R","G","A","N","I","Z","E","R">>, <<"A","T","T","E","N","D","E","E">>}
       \/ field_name = <<"O","R","G","A","N","I","Z","E","R">>
            /\ (mailto_match(value) # <<>> \/ cn_match(field) # <<>>)
       \/ field_name = <<"A","T","T","E","N","D","E","E">>
            /\ \/ mailto_match(value) # <<>>
               \/ contains(lower(value), ViewerEmail) /\ partstat_match(field) # <<>>

\* as after_pending with the pending field dropped instead of decoded
after_pending_skip(ev, field, value) == ev

\* the open event once the pending folded field, if any, has been decoded into it
after_pending(ev, field, value) ==
    IF has_pending(field, value) /\ ev # <<>>
    THEN <<process_field(ev[1], field[1], value)>> ELSE ev

\* as begin_event with an event that is already open kept open
begin_event_keep(ev) == IF ev # <<>> THEN ev ELSE <<CalendarEvent>>

\* current_event = CalendarEvent(): a fresh event replaces whatever was open
begin_event(ev) == <<CalendarEvent>>

\* as append_event with the event put in front
append_event_first(evs, e) == <<e>> \o evs

\* events.append(current_event)
append_event(evs, e) == Append(evs, e)

\* one iteration of `for line in f`
ParseLine(raw) ==
    /\ pc = "reading"
    /\ Len(lines) < MaxLines
    /\ lines' = Append(lines, raw)
    /\ LET line == rstrip_newline(raw)
       IN IF is_continuation(line, current_field)
          THEN /\ continuation_value' = continuation_value \o strip(line)
               /\ UNCHANGED <<events, current_event, current_field, pc>>
          ELSE LET pending == has_pending(current_field, continuation_value)
                   ev == after_pending(current_event, current_field, continuation_value)
                   fld == IF pending THEN <<>> ELSE current_field
                   val == IF pending THEN <<>> ELSE continuation_value
               IN IF pending /\ current_event = <<>>
                        /\ assigns(current_field[1], continuation_value)
                  THEN /\ pc' = "raised"
                       /\ UNCHANGED <<events, current_event, current_field,
                                      continuation_value>>
                  ELSE /\ pc' = pc
                       /\ IF is_begin(line)
                          THEN /\ current_event' = begin_event(ev)
                               /\ events' = events
                               /\ current_field' = fld
                               /\ continuation_value' = val
                          ELSE IF is_end(line, ev)
                          THEN /\ events' = append_event(events, ev[1])
                               /\ current_event' = <<>>
                               /\ current_field' = fld
                               /\ continuation_value' = val
                          ELSE IF is_field(line, ev)
                          THEN LET field == FieldOf(line)
                                   value == ValueOf(line)
                               IN IF ~is_folded(line)
                                  THEN /\ current_event' = <<process_field(ev[1], field, value)>>
                                       /\ current_field' = <<>>
                                       /\ continuation_value' = val
                                       /\ events' = events
                                  ELSE /\ current_event' = ev
                                       /\ current_field' = <<field>>
                                       /\ continuation_value' = value
                                       /\ events' = events
                          ELSE /\ current_event' = ev
                               /\ current_field' = fld
                               /\ continuation_value' = val
                               /\ events' = events
    /\ UNCHANGED <<classifier_vars, agg_vars>>

\* as returned_events with an implicit close of the event still open
returned_events_close(evs, ev) == IF ev # <<>> THEN Append(evs, ev[1]) ELSE evs

\* return events: the list as built; an event still open is not part of it
returned_events(evs, ev) == evs

\* end of file: the loop ends and parse_ics_file returns
EndOfInput ==
    /\ pc = "reading"
    /\ pc' = "done"
    /\ events' = returned_events(events, current_event)
    /\ UNCHANGED <<lines, current_event, current_field, continuation_value>>
    /\ UNCHANGED <<classifier_vars, agg_vars>>

\* the decoder applied to each field line in turn, on a fresh event
RECURSIVE DecodeFields(_)
DecodeFields(fs) ==
    IF fs = <<>> THEN CalendarEvent
    ELSE process_field(DecodeFields(SubSeq(fs, 1, Len(fs) - 1)),
                       FieldOf(fs[Len(fs)]), ValueOf(fs[Len(fs)]))

ClassifierIdle ==
    /\ event = CalendarEvent /\ category = <<>> /\ relevant = <<>> /\ calls = 0

\* analyze_time_patterns: stats as first built, before the loop
new_time_stats ==
    [by_month |-> <<>>, by_day_of_week |-> <<>>, by_time_of_day |-> <<>>,
     by_meeting_type |-> <<>>, by_company |-> <<>>, by_location |-> <<>>,
     meeting_size_distribution |-> <<>>,
     recurring_vs_adhoc |->
        [recurring |-> 0, adhoc |-> 0, recurring_hours |-> 0, adhoc_hours |-> 0]]

AggIdle ==
    /\ agg_pc = "idle" /\ agg_events = <<>> /\ agg_i = 0
    /\ categorized = <<>> /\ main_totals = <<>> /\ output = <<>>
    /\ cal_categories = <<>>
    /\ stats = [total_events |-> 0, by_category |-> <<>>, by_status |-> <<>>,
                by_busy_status |-> <<>>, total_hours_by_category |-> <<>>]
    /\ work_events = <<>> /\ stakeholder_meetings = <<>> /\ organizer_stats = <<>>
    /\ time_stats = new_time_stats

ParserIdle ==
    /\ lines = <<>> /\ events = <<>> /\ current_event = <<>> /\ current_field = <<>>
    /\ continuation_value = <<>> /\ pc = "idle"

Init ==
    /\ lines = <<>>
    /\ events = <<>>
    /\ current_event = <<>>
    /\ current_field = <<>>
    /\ continuation_value = <<>>
    /\ pc = "reading"
    /\ ClassifierIdle
    /\ AggIdle

Next == (\E raw \in RawLines : ParseLine(raw)) \/ EndOfInput

Spec == Init /\ [][Next]_vars

----------------------------------------------------------------------------
(* Properties of parse_ics_file *)

\* the lines read so far, without their terminators
Logical == [i \in 1..Len(lines) |-> rstrip_newline(lines[i])]

BeginLine(l) == l = <<"B","E","G","I","N",":","V","E","V","E","N","T">>
EndLine(l) == l = <<"E","N","D",":","V","E","V","E","N","T">>
IndentedLine(l) == l # <<>> /\ l[1] \in {" ", "\t"}
FieldLine(l) == ~BeginLine(l) /\ ~EndLine(l) /\ ~IndentedLine(l) /\ contains(l, <<":">>)

\* index of the first END:VEVENT of ls, 0 when there is none
FirstEnd(ls) ==
    IF \E k \in 1..Len(ls) : EndLine(ls[k])
    THEN SetMin({k \in 1..Len(ls) : EndLine(ls[k])}) ELSE 0

OnlyFieldLines(ls) == \A i \in 1..Len(ls) : FieldLine(ls[i])

\* fields each followed by any number of indented lines
FoldedItems(ls) ==
    /\ \A i \in 1..Len(ls) : FieldLine(ls[i]) \/ IndentedLine(ls[i])
    /\ ls # <<>> => FieldLine(ls[1])

\* the fields of a block after unfolding: each indented line, left-trimmed, is
\* appended to the value of the field before it
RECURSIVE Unfold(_)
Unfold(ls) ==
    IF ls = <<>> THEN <<>>
    ELSE LET last == ls[Len(ls)]
             front == Unfold(SubSeq(ls, 1, Len(ls) - 1))
         IN IF IndentedLine(last)
            THEN [front EXCEPT ![Len(front)] = @ \o lstrip(last)]
            ELSE Append(front, last)

\* plain fields, and fields folded with '=' and continued on indented lines
JoinableItems(ls) ==
    /\ FoldedItems(ls)
    /\ \A i \in 1..Len(ls) :
        /\ (FieldLine(ls[i]) /\ is_folded(ls[i])) =>
              (i < Len(ls) /\ IndentedLine(ls[i + 1]))
        /\ (IndentedLine(ls[i]) /\ FieldLine(ls[i - 1])) => is_folded(ls[i - 1])

\* the single-line equivalent of each field of a block: the fold marker '='
\* ending a field's first line is dropped and the continuation text follows
RECURSIVE Join(_)
Join(ls) ==
    IF ls = <<>> THEN <<>>
    ELSE LET last == ls[Len(ls)]
             front == Join(SubSeq(ls, 1, Len(ls) - 1))
         IN IF IndentedLine(last)
            THEN [front EXCEPT ![Len(front)] = @ \o lstrip(last)]
            ELSE IF is_folded(last)
            THEN Append(front, SubSeq(last, 1, Len(last) - 1))
            ELSE Append(front, last)

\* the shapes of a block's lines, and how each shape is read
ItemsOk(shape, ls) ==
    CASE shape = "fields" -> OnlyFieldLines(ls)
      [] shape = "folded" -> FoldedItems(ls)
      [] shape = "joinable" -> JoinableItems(ls)

DecodeAs(shape, ls) ==
    CASE shape = "fields" -> DecodeFields(ls)
      [] shape = "folded" -> DecodeFields(Unfold(ls))
      [] shape = "joinable" -> DecodeFields(Join(ls))

\* ls is a sequence of blocks BEGIN:VEVENT, items, END:VEVENT, where the lines
\* between the markers have the given shape
RECURSIVE Blocks(_, _)
Blocks(ls, shape) ==
    \/ ls = <<>>
    \/ /\ BeginLine(ls[1])
       /\ FirstEnd(ls) # 0
       /\ ItemsOk(shape, SubSeq(ls, 2, FirstEnd(ls) - 1))
       /\ Blocks(SubSeq(ls, FirstEnd(ls) + 1, Len(ls)), shape)

\* one event per block of ls, each decoded from its own lines
RECURSIVE EventsOf(_, _)
EventsOf(ls, shape) ==
    IF ls = <<>> THEN <<>>
    ELSE <<DecodeAs(shape, SubSeq(ls, 2, FirstEnd(ls) - 1))>>
         \o EventsOf(SubSeq(ls, FirstEnd(ls) + 1, Len(ls)), shape)

\* C1: for an input made only of well-formed blocks (BEGIN:VEVENT, field lines,
\* END:VEVENT), the output holds exactly one event per block, in source order,
\* and each event is what the decoder makes of the field lines of its own block.
C1_OneEventPerBlock ==
    Blocks(Logical, "fields") =>
        /\ pc # "raised"
        /\ current_event = <<>>
        /\ events = EventsOf(Logical, "fields")

\* two blocks with different fields have been read and emitted
C1_Witness ==
    /\ Blocks(Logical, "fields")
    /\ Len(events) = 2
    /\ events[1].dtstart # <<>>
    /\ events[2].dtstart = <<>>

\* the number of END:VEVENT lines of ls read while an event was open
RECURSIVE EndsWhileOpen(_, _)
EndsWhileOpen(ls, open) ==
    IF ls = <<>> THEN 0
    ELSE IF BeginLine(Head(ls)) THEN EndsWhileOpen(Tail(ls), TRUE)
    ELSE IF EndLine(Head(ls)) /\ open THEN 1 + EndsWhileOpen(Tail(ls), FALSE)
    ELSE EndsWhileOpen(Tail(ls), open)

\* an event is open after ls: a BEGIN:VEVENT with no END:VEVENT after it
RECURSIVE OpenAfter(_)
OpenAfter(ls) ==
    IF ls = <<>> THEN FALSE
    ELSE IF BeginLine(ls[Len(ls)]) THEN TRUE
    ELSE IF EndLine(ls[Len(ls)]) THEN FALSE
    ELSE OpenAfter(SubSeq(ls, 1, Len(ls) - 1))

\* C2: events are emitted only by END:VEVENT lines read while an event is open:
\* after any input, and in the returned list, the number of events is the number
\* of such lines, so an event still open at end of input is not emitted.
C2_EmittedOnlyAtEnd ==
    /\ Len(events) = EndsWhileOpen(Logical, FALSE)
    /\ (current_event # <<>>) <=> OpenAfter(Logical)

\* the parser has returned with one event emitted and another left open
C2_Witness ==
    /\ pc = "done"
    /\ OpenAfter(Logical)
    /\ current_event # <<>>
    /\ current_event[1].summary # <<>>
    /\ Len(events) = 1

\* C3: inside an open event every line that begins with a space or a tab
\* continues the field before it, whether or not that field's line ended
\* with '=': its left-trimmed text is appended to the value before decoding.
C3_EveryIndentedLineContinues ==
    Blocks(Logical, "folded") =>
        (events = EventsOf(Logical, "folded") /\ pc # "raised")

\* C4: a DTSTART folded with '=' and continued on indented lines decodes to the
\* same start value, date and duration as its single-line equivalent.
C4_FoldRoundTrip ==
    Blocks(Logical, "joinable") =>
        /\ Len(events) = Len(EventsOf(Logical, "joinable"))
        /\ \A i \in 1..Len(events) :
            LET unfolded == EventsOf(Logical, "joinable")[i]
            IN /\ events[i].dtstart = unfolded.dtstart
               /\ get_date(events[i]) = get_date(unfolded)
               /\ get_duration_hours(events[i]) = get_duration_hours(unfolded)

LastLine == Logical[Len(Logical)]

\* the line just read is malformed: it has no colon, or it is an indented line
\* with no pending field, or it is a field line whose name the decoder ignores
Malformed(line, field) ==
    /\ ~BeginLine(line) /\ ~EndLine(line)
    /\ \/ ~contains(line, <<":">>) /\ ~is_continuation(line, field)
       \/ IndentedLine(line) /\ ~truthy(field)
       \/ FieldLine(line) /\ split_first(FieldOf(line), <<";">>) \notin KnownFields

ReadsMalformed ==
    /\ lines' # lines
    /\ Malformed(rstrip_newline(lines'[Len(lines')]), current_field)

\* C5 as stated: the parser never raises, and reading a malformed line changes
\* neither the emitted events nor any field of the event under construction.
C5_MalformedIsNoOp ==
    /\ [](pc # "raised")
    /\ [][ReadsMalformed => (events' = events /\ current_event' = current_event)]_vars

\* C5 amended: the parser never raises, and reading a malformed line leaves the
\* emitted events as they are and changes the event under construction only by
\* decoding into it the folded field that was pending when the line was read.
C5_MalformedOnlyDecodesPending ==
    /\ [](pc # "raised")
    /\ [][ReadsMalformed =>
            /\ events' = events
            /\ current_event' =
                 IF has_pending(current_field, continuation_value) /\ current_event # <<>>
                 THEN <<process_field(current_event[1], current_field[1],
                                      continuation_value)>>
                 ELSE current_event]_vars

\* a line with no colon was read while a folded DTSTART was pending, and the
\* open event now holds the decoded start
C5_Witness ==
    /\ Len(lines) >= 3
    /\ LastLine = <<"g","a","r","b","a","g","e">>
    /\ is_folded(Logical[Len(lines) - 1])
    /\ current_event # <<>>
    /\ current_event[1].dtstart # <<>>
    /\ current_field = <<>>

\* the line the loop reads in this step
NewLine == rstrip_newline(lines'[Len(lines')])

\* a field line that is decoded at once
PlainFieldLine(l) == FieldLine(l) /\ ~is_folded(l)

\* index of the last BEGIN:VEVENT of ls, 0 when there is none
LastBegin(ls) ==
    IF \E k \in 1..Len(ls) : BeginLine(ls[k])
    THEN SetMax({k \in 1..Len(ls) : BeginLine(ls[k])}) ELSE 0

\* the input ends with BEGIN:VEVENT, plain field lines, END:VEVENT
EndsWithPlainBlock ==
    /\ Len(Logical) >= 2
    /\ EndLine(LastLine)
    /\ LastBegin(Logical) # 0
    /\ \A k \in (LastBegin(Logical) + 1)..(Len(Logical) - 1) : PlainFieldLine(Logical[k])

\* the field lines of that last block
LastBlockFields == SubSeq(Logical, LastBegin(Logical) + 1, Len(Logical) - 1)

\* C20: a BEGIN:VEVENT read while an event is open discards the open event: it
\* is not emitted, the event under construction is fresh, and the event emitted
\* next carries only the fields of its own block; an END:VEVENT read while no
\* event is open leaves the output list and the parser state unchanged.
C20_EventBoundaries ==
    /\ [][(lines' # lines /\ BeginLine(NewLine) /\ current_event # <<>>) =>
            (events' = events /\ current_event' = <<CalendarEvent>>)]_vars
    /\ [][(lines' # lines /\ EndLine(NewLine) /\ current_event = <<>>) =>
            UNCHANGED <<events, current_event, current_field, continuation_value, pc>>]_vars
    /\ [](EndsWithPlainBlock =>
            (events # <<>> /\ events[Len(events)] = DecodeFields(LastBlockFields)))

\* BEGIN:VEVENT, a summary, BEGIN:VEVENT again, a start, END:VEVENT and a second
\* END:VEVENT have been read: one event is emitted, with the start and no summary
C20_Witness ==
    /\ Len(lines) = 5
    /\ BeginLine(Logical[1])
    /\ Logical[2] = <<"S","U","M","M","A","R","Y",":","C","u","s","t","o","m","e","r">>
    /\ BeginLine(Logical[3])
    /\ Logical[4] = <<"D","T","S","T","A","R","T",":","2","0","2","5","0","1","0","1","T","0","9","0","0","0","0">>
    /\ EndLine(Logical[5])
    /\ Len(events) = 1
    /\ events[1].summary = <<>>
    /\ events[1].dtstart # <<>>
    /\ current_event = <<>>

----------------------------------------------------------------------------
(* The parser on attendee lines *)

\* the attendee lines of four exports: the viewer and a colleague as Outlook
\* writes them, the viewer with the scheme of the address in capitals, and a
\* colleague whose address ends in the viewer's
AttendeeLines ==
    {<<"B","E","G","I","N",":","V","E","V","E","N","T","\n">>,
     <<"E","N","D",":","V","E","V","E","N","T","\n">>,
     <<"A","T","T","E","N","D","E","E",";","C","N","=","D","a","n","i","e","l"," ","M","o","r","e","i","r","a",";","P","A","R","T","S","T","A","T","=","A","C","C","E","P","T","E","D",":","m","a","i","l","t","o",":","d","a","n","i","e","l",".","m","o","r","e","i","r","a","@","a","u","t","o","d","e","s","k",".","c","o","m","\n">>,
     <<"A","T","T","E","N","D","E","E",";","C","N","=","J","a","n","e"," ","D","o","e",";","P","A","R","T","S","T","A","T","=","D","E","C","L","I","N","E","D",":","m","a","i","l","t","o",":","j","a","n","e","@","a","c","m","e",".","c","o","m","\n">>,
     <<"A","T","T","E","N","D","E","E",";","P","A","R","T","S","T","A","T","=","D","E","C","L","I","N","E","D",":","M","A","I","L","T","O",":","d","a","n","i","e","l",".","m","o","r","e","i","r","a","@","a","u","t","o","d","e","s","k",".","c","o","m","\n">>,
     <<"A","T","T","E","N","D","E","E",";","P","A","R","T","S","T","A","T","=","T","E","N","T","A","T","I","V","E",":","m","a","i","l","t","o",":","m","c","d","a","n","i","e","l",".","m","o","r","e","i","r","a","@","a","u","t","o","d","e","s","k",".","c","o","m","\n">>}

NextAttendees == (\E raw \in AttendeeLines : ParseLine(raw)) \/ EndOfInput

SpecAttendees == Init /\ [][NextAttendees]_vars

\* the event's status is empty or the status of an attendee entry of the viewer
StatusOfViewerEntry(e) ==
    \/ e.status = <<>>
    \/ \E j \in 1..Len(e.attendees) :
          /\ e.attendees[j].email = ViewerEmail
          /\ e.attendees[j].status = e.status

\* the line just read appended the viewer to the attendees of the open event
AppendsViewer ==
    /\ Len(current_event'[1].attendees) = Len(current_event[1].attendees) + 1
    /\ current_event'[1].attendees[Len(current_event'[1].attendees)].email = ViewerEmail

\* the line just read changed the status of the event that stays open
SetsStatus ==
    /\ current_event # <<>> /\ current_event' # <<>>
    /\ ~is_begin(rstrip_newline(lines'[Len(lines')]))
    /\ Len(lines') = Len(lines) + 1
    /\ current_event'[1].status # current_event[1].status

\* C24: an event's own status is empty or the PARTSTAT of an entry of its
\* attendee list whose email is the viewer's address, and it is never set by a
\* line that did not also append the viewer as an attendee.
C24_StatusFromAttendeeList ==
    /\ [](/\ current_event # <<>> => StatusOfViewerEntry(current_event[1])
          /\ \A i \in 1..Len(events) : StatusOfViewerEntry(events[i]))
    /\ [][SetsStatus => AppendsViewer]_vars

----------------------------------------------------------------------------
(* The parser on folded fields *)

\* the lines of exports with folded fields: a title folded over two
\* continuation lines, the first of which ends in a space, a line with an empty
\* field name, and a field on one line
FoldLines ==
    {<<"B","E","G","I","N",":","V","E","V","E","N","T","\n">>,
     <<"E","N","D",":","V","E","V","E","N","T","\n">>,
     <<"S","U","M","M","A","R","Y",":","B","u","d","g","e","t"," ","=","\n">>,
     <<" ","r","e","v","i","e","w"," ","\n">>,
     <<"\t","Q","3","\n">>,
     <<":","=","\n">>,
     <<"L","O","C","A","T","I","O","N",":","R","o","o","m"," ","4","\n">>}

NextFolds == (\E raw \in FoldLines : ParseLine(raw)) \/ EndOfInput

SpecFolds == Init /\ [][NextFolds]_vars

\* the loop reads a line
ReadsLine == Len(lines') = Len(lines) + 1

\* the line read continues the pending folded field
ReadsContinuation == ReadsLine /\ IndentedLine(NewLine) /\ truthy(current_field)

\* the line read is the first line of a folded field of the open event
StartsFold ==
    /\ ReadsLine /\ current_event # <<>>
    /\ FieldLine(NewLine) /\ is_folded(NewLine)

\* C25: the value handed to the decoder is the first line's value followed by
\* each continuation line with only its leading whitespace removed, in order,
\* with no separator and nothing else dropped: the first line starts the
\* accumulated value with its value, and each continuation line appends itself
\* less its leading whitespace, its trailing whitespace kept.
C25_ContinuationExact ==
    [][/\ StartsFold => continuation_value' = ValueOf(NewLine)
       /\ ReadsContinuation =>
             continuation_value' = continuation_value \o lstrip(NewLine)]_vars

\* a folded field is pending: the loop's test `current_field and continuation_value`
PendingField == truthy(current_field) /\ continuation_value # <<>>

\* the open event with the pending field decoded into it
PendingDecoded == process_field(current_event[1], current_field[1], continuation_value)

\* C26: a pending folded field is always decoded into the event that was open
\* when the field started. When END:VEVENT follows it, the field is decoded
\* into that event before the event is appended; when BEGIN:VEVENT follows it,
\* the field goes to the old, discarded event and never to the new one, which
\* starts fresh with no field pending.
C26_PendingGoesToItsEvent ==
    [][(ReadsLine /\ PendingField /\ current_event # <<>>) =>
          /\ EndLine(NewLine) =>
                /\ events' = Append(events, PendingDecoded)
                /\ current_event' = <<>>
          /\ BeginLine(NewLine) =>
                /\ current_event' = <<CalendarEvent>>
                /\ events' = events
          /\ (EndLine(NewLine) \/ BeginLine(NewLine)) =>
                /\ current_field' = <<>>
                /\ continuation_value' = <<>>]_vars

\* a title folded over a continuation line was pending when END:VEVENT was
\* read: the emitted event carries the joined title
C26_Witness ==
    /\ Logical = <<<<"B","E","G","I","N",":","V","E","V","E","N","T">>, <<"S","U","M","M","A","R","Y",":","B","u","d","g","e","t"," ","=">>, <<"\t","Q","3">>, <<"E","N","D",":","V","E","V","E","N","T">>>>
    /\ Len(events) = 1
    /\ events[1].summary = <<"B","u","d","g","e","t"," ","=","Q","3">>
    /\ current_event = <<>> /\ current_field = <<>>

\* C27: emitted events are final. Once an event is appended to the output
\* list, no later line changes any of its fields or its position, and the list
\* only grows by appending.
C27_EmittedEventsAreFinal ==
    [][/\ Len(events') \in {Len(events), Len(events) + 1}
       /\ \A i \in 1..Len(events) : events'[i] = events[i]]_vars

\* an event without a title was emitted, and the event opened after it has been
\* given a title
C27_Witness ==
    /\ Len(events) = 1
    /\ events[1].summary = <<>>
    /\ current_event # <<>>
    /\ current_event[1].summary # <<>>

\* C30: in every reachable state a pending folded field (current_field set, as
\* the loop tests it) implies that an event is open and that the continuation
\* value is not empty; hence process_field is never called with no event.
C30_PendingImpliesOpenEvent ==
    /\ truthy(current_field) => (current_event # <<>> /\ continuation_value # <<>>)
    /\ pc # "raised"

\* after one event was emitted, a folded title of the next event is pending
\* with a continuation line read
C30_Witness ==
    /\ Len(events) = 1
    /\ current_event # <<>>
    /\ current_field = <<<<"S","U","M","M","A","R","Y">>>>
    /\ continuation_value = <<"B","u","d","g","e","t"," ","=","Q","3">>

----------------------------------------------------------------------------
(* The classifier (rerun_analysis_improved.py) and the work-relevance filters *)

\* any(keyword in text for keyword in keywords)
any_in(text, keywords) == \E k \in keywords : contains(text, k)

\* is_actual_meeting as it would be with the comparison written >= 0
is_actual_meeting_always(e) == Len(e.attendees) >= 0

\* is_actual_meeting(event)
is_actual_meeting(e) == Len(e.attendees) > 0

\* as declined_label with every status labelled as a decline
declined_label_declined(status) == <<"d","e","c","l","i","n","e","d","_","t","e","n","t","a","t","i","v","e","_","d","e","c","l","i","n","e","d">>

\* the label of a declined or tentative event with the status left in upper case
declined_label_raw(status) == <<"d","e","c","l","i","n","e","d","_","t","e","n","t","a","t","i","v","e","_">> \o status

\* f"declined_tentative_{event.status.lower()}"
declined_label(status) == <<"d","e","c","l","i","n","e","d","_","t","e","n","t","a","t","i","v","e","_">> \o lower(status)

\* categorize_event_final(event)
categorize_event_final(e) ==
    LET summary_lower == lower(e.summary)
        desc_lower == lower(e.description)
    IN IF ~is_actual_meeting(e) THEN <<"n","o","n","_","m","e","e","t","i","n","g","s","_","e","x","c","l","u","d","e","d">>
       ELSE IF e.status \in {<<"D","E","C","L","I","N","E","D">>, <<"T","E","N","T","A","T","I","V","E">>} THEN declined_label(e.status)
       ELSE IF e.busy_status = <<"O","O","F">> THEN <<"o","u","t","_","o","f","_","o","f","f","i","c","e">>
       ELSE IF any_in(summary_lower,
                {<<"o","u","t"," ","o","f"," ","o","f","f","i","c","e">>, <<"o","o","o">>, <<"p","t","o">>, <<"v","a","c","a","t","i","o","n">>, <<"h","o","l","i","d","a","y">>})
            THEN <<"p","e","r","s","o","n","a","l","_","t","i","m","e","_","o","f","f">>
       ELSE IF contains(summary_lower, <<"f","o","c","u","s"," ","f","r","i","d","a","y">>)
                \/ contains(summary_lower, <<"f","o","c","u","s"," ","f","r","i","d","a","y","s">>)
            THEN <<"f","o","c","u","s","_","f","r","i","d","a","y","s","_","e","x","c","l","u","d","e","d">>
       ELSE IF any_in(summary_lower,
                {<<"l","a","p","t","o","p">>, <<"n","e","w"," ","l","a","p","t","o","p">>, <<"i","t"," ","s","u","p","p","o","r","t">>, <<"s","e","t","u","p">>, <<"i","n","f","o","w","o","r","k","s"," ","i","c","m"," ","c","l","o","u","d">>})
            THEN <<"w","o","r","k","_","a","d","m","i","n","_","i","t">>
       ELSE IF any_in(summary_lower, {<<"d","e","n","t","i","s","t">>, <<"d","o","c","t","o","r">>, <<"p","e","r","s","o","n","a","l"," ","b","o","o","k","i","n","g","s">>})
                /\ ~any_in(summary_lower, {<<"c","u","s","t","o","m","e","r">>, <<"c","l","i","e","n","t">>})
            THEN <<"p","e","r","s","o","n","a","l","_","a","p","p","o","i","n","t","m","e","n","t","s","_","e","x","c","l","u","d","e","d">>
       ELSE IF any_in(summary_lower, {<<"l","u","n","c","h">>, <<"b","r","e","a","k","f","a","s","t">>})
            THEN IF \E k \in {<<"c","u","s","t","o","m","e","r">>, <<"c","l","i","e","n","t">>, <<"d","i","n","n","e","r">>, <<"r","e","c","e","p","t","i","o","n">>,
                              <<"n","e","t","w","o","r","k","i","n","g">>, <<"t","e","a","m">>, <<"c","s"," ","d","i","n","n","e","r">>, <<"e","b","c","s">>, <<"a","w","i">>} :
                        contains(summary_lower, k) \/ contains(desc_lower, k)
                 THEN <<"b","u","s","i","n","e","s","s","_","m","e","a","l","s","_","n","e","t","w","o","r","k","i","n","g">>
                 ELSE <<"b","r","e","a","k","s","_","p","e","r","s","o","n","a","l","_","e","x","c","l","u","d","e","d">>
       ELSE IF any_in(summary_lower, {<<"g","y","m">>, <<"w","o","r","k","o","u","t">>, <<"e","x","e","r","c","i","s","e">>})
            THEN <<"b","r","e","a","k","s","_","p","e","r","s","o","n","a","l","_","e","x","c","l","u","d","e","d">>
       ELSE IF e.transp = <<"T","R","A","N","S","P","A","R","E","N","T">> \/ e.busy_status = <<"F","R","E","E">>
            THEN <<"f","r","e","e","_","t","i","m","e","_","t","r","a","n","s","p","a","r","e","n","t","_","e","x","c","l","u","d","e","d">>
       ELSE IF \E k \in {<<"c","u","s","t","o","m","e","r">>, <<"c","l","i","e","n","t">>, <<"e","x","t","e","r","n","a","l">>, <<"d","e","m","o">>, <<"p","r","e","s","e","n","t","a","t","i","o","n">>,
                         <<"s","a","l","e","s">>, <<"p","r","o","s","p","e","c","t">>, <<"d","i","n","n","e","r">>, <<"r","e","c","e","p","t","i","o","n">>} :
                    contains(summary_lower, k) \/ contains(desc_lower, k)
            THEN <<"c","u","s","t","o","m","e","r","_","e","x","t","e","r","n","a","l">>
       ELSE IF any_in(summary_lower,
                {<<"1",":","1">>, <<"o","n","e"," ","o","n"," ","o","n","e">>, <<"1","-","1">>, <<"s","y","n","c">>, <<"c","a","t","c","h"," ","u","p">>, <<"c","h","e","c","k"," ","i","n">>})
            THEN <<"i","n","t","e","r","n","a","l","_","m","e","e","t","i","n","g","s","_","1","o","n","1","_","s","y","n","c">>
       ELSE IF any_in(summary_lower,
                {<<"t","r","a","i","n","i","n","g">>, <<"w","o","r","k","s","h","o","p">>, <<"l","e","a","r","n","i","n","g">>, <<"c","o","u","r","s","e">>, <<"w","e","b","i","n","a","r">>,
                 <<"c","e","r","t","i","f","i","c","a","t","i","o","n">>, <<"o","n","b","o","a","r","d","i","n","g">>})
            THEN <<"t","r","a","i","n","i","n","g","_","l","e","a","r","n","i","n","g">>
       ELSE IF any_in(summary_lower,
                {<<"p","l","a","n","n","i","n","g">>, <<"r","o","a","d","m","a","p">>, <<"s","t","r","a","t","e","g","y">>, <<"r","e","v","i","e","w">>, <<"r","e","t","r","o","s","p","e","c","t","i","v","e">>,
                 <<"s","p","r","i","n","t">>, <<"s","c","r","u","m">>, <<"p","r","o","j","e","c","t">>, <<"i","n","i","t","i","a","t","i","v","e">>, <<"b","a","c","k","l","o","g">>,
                 <<"r","e","f","i","n","e","m","e","n","t">>})
            THEN <<"p","l","a","n","n","i","n","g","_","s","t","r","a","t","e","g","y">>
       ELSE IF any_in(summary_lower,
                {<<"i","n","t","e","r","v","i","e","w">>, <<"c","a","n","d","i","d","a","t","e">>, <<"h","i","r","i","n","g">>, <<"r","e","c","r","u","i","t","i","n","g">>, <<"s","c","r","e","e","n","i","n","g">>})
            THEN <<"r","e","c","r","u","i","t","i","n","g","_","h","i","r","i","n","g">>
       ELSE IF any_in(summary_lower,
                {<<"f","o","c","u","s"," ","t","i","m","e">>, <<"b","l","o","c","k","e","d">>, <<"d","o"," ","n","o","t"," ","b","o","o","k">>, <<"d","n","b">>, <<"h","e","a","d","s"," ","d","o","w","n">>,
                 <<"d","e","e","p"," ","w","o","r","k">>, <<"n","o"," ","m","e","e","t","i","n","g","s">>})
                /\ ~contains(summary_lower, <<"f","r","i","d","a","y">>)
            THEN <<"f","o","c","u","s","_","t","i","m","e","_","b","l","o","c","k","e","d">>
       ELSE IF e.busy_status = <<"B","U","S","Y">> \/ e.transp = <<"O","P","A","Q","U","E">>
            THEN <<"g","e","n","e","r","a","l","_","w","o","r","k","_","m","e","e","t","i","n","g","s">>
       ELSE <<"u","n","c","a","t","e","g","o","r","i","z","e","d">>

\* as excluded_categories with the Focus Friday label left out
excluded_categories_without_focus ==
    {<<"d","e","c","l","i","n","e","d","_","t","e","n","t","a","t","i","v","e","_","d","e","c","l","i","n","e","d">>, <<"d","e","c","l","i","n","e","d","_","t","e","n","t","a","t","i","v","e","_","t","e","n","t","a","t","i","v","e">>, <<"o","u","t","_","o","f","_","o","f","f","i","c","e">>,
     <<"p","e","r","s","o","n","a","l","_","t","i","m","e","_","o","f","f">>, <<"b","r","e","a","k","s","_","p","e","r","s","o","n","a","l","_","e","x","c","l","u","d","e","d">>, <<"f","r","e","e","_","t","i","m","e","_","t","r","a","n","s","p","a","r","e","n","t","_","e","x","c","l","u","d","e","d">>,
     <<"p","e","r","s","o","n","a","l","_","a","p","p","o","i","n","t","m","e","n","t","s","_","e","x","c","l","u","d","e","d">>, <<"n","o","n","_","m","e","e","t","i","n","g","s","_","e","x","c","l","u","d","e","d">>}

\* the excluded list without the label of a declined event
excluded_categories_short ==
    {<<"d","e","c","l","i","n","e","d","_","t","e","n","t","a","t","i","v","e","_","t","e","n","t","a","t","i","v","e">>, <<"o","u","t","_","o","f","_","o","f","f","i","c","e">>, <<"p","e","r","s","o","n","a","l","_","t","i","m","e","_","o","f","f">>,
     <<"b","r","e","a","k","s","_","p","e","r","s","o","n","a","l","_","e","x","c","l","u","d","e","d">>, <<"f","r","e","e","_","t","i","m","e","_","t","r","a","n","s","p","a","r","e","n","t","_","e","x","c","l","u","d","e","d">>,
     <<"f","o","c","u","s","_","f","r","i","d","a","y","s","_","e","x","c","l","u","d","e","d">>, <<"p","e","r","s","o","n","a","l","_","a","p","p","o","i","n","t","m","e","n","t","s","_","e","x","c","l","u","d","e","d">>,
     <<"n","o","n","_","m","e","e","t","i","n","g","s","_","e","x","c","l","u","d","e","d">>}

\* is_work_relevant_final: excluded_categories
excluded_categories ==
    {<<"d","e","c","l","i","n","e","d","_","t","e","n","t","a","t","i","v","e","_","d","e","c","l","i","n","e","d">>, <<"d","e","c","l","i","n","e","d","_","t","e","n","t","a","t","i","v","e","_","t","e","n","t","a","t","i","v","e">>,
     <<"o","u","t","_","o","f","_","o","f","f","i","c","e">>, <<"p","e","r","s","o","n","a","l","_","t","i","m","e","_","o","f","f">>, <<"b","r","e","a","k","s","_","p","e","r","s","o","n","a","l","_","e","x","c","l","u","d","e","d">>,
     <<"f","r","e","e","_","t","i","m","e","_","t","r","a","n","s","p","a","r","e","n","t","_","e","x","c","l","u","d","e","d">>, <<"f","o","c","u","s","_","f","r","i","d","a","y","s","_","e","x","c","l","u","d","e","d">>,
     <<"p","e","r","s","o","n","a","l","_","a","p","p","o","i","n","t","m","e","n","t","s","_","e","x","c","l","u","d","e","d">>, <<"n","o","n","_","m","e","e","t","i","n","g","s","_","e","x","c","l","u","d","e","d">>}

\* is_work_relevant_final(category)
is_work_relevant_final(cat) == cat \notin excluded_categories

\* is_work_relevant(event) of stakeholder_analysis.py
is_work_relevant(e) ==
    LET summary_lower == lower(e.summary)
    IN IF Len(e.attendees) = 0 THEN FALSE
       ELSE IF e.status \in {<<"D","E","C","L","I","N","E","D">>, <<"T","E","N","T","A","T","I","V","E">>} THEN FALSE
       ELSE IF e.busy_status = <<"O","O","F">> THEN FALSE
       ELSE IF any_in(summary_lower,
                {<<"o","u","t"," ","o","f"," ","o","f","f","i","c","e">>, <<"o","o","o">>, <<"p","t","o">>, <<"v","a","c","a","t","i","o","n">>, <<"h","o","l","i","d","a","y">>,
                 <<"p","e","r","s","o","n","a","l">>, <<"d","e","n","t","i","s","t">>, <<"d","o","c","t","o","r">>})
            THEN FALSE
       ELSE IF contains(summary_lower, <<"f","o","c","u","s"," ","f","r","i","d","a","y">>)
                \/ contains(summary_lower, <<"f","o","c","u","s"," ","f","r","i","d","a","y","s">>)
            THEN FALSE
       ELSE IF any_in(summary_lower, {<<"l","u","n","c","h">>, <<"b","r","e","a","k","f","a","s","t">>, <<"g","y","m">>, <<"w","o","r","k","o","u","t">>})
                /\ ~any_in(summary_lower, {<<"c","u","s","t","o","m","e","r">>, <<"c","l","i","e","n","t">>, <<"m","e","e","t","i","n","g">>})
            THEN FALSE
       ELSE IF e.transp = <<"T","R","A","N","S","P","A","R","E","N","T">> \/ e.busy_status = <<"F","R","E","E">> THEN FALSE
       ELSE TRUE

\* how often the model calls the classifier on one event
MaxCalls == 2

\* the events handed to the classifier: every combination of these fields
Titles ==
    {<<>>, <<"C","u","s","t","o","m","e","r"," ","Q","B","R"," "," ","A","c","m","e"," ","C","o","r","p">>, <<"F","o","c","u","s"," ","F","r","i","d","a","y">>, <<"N","e","w"," ","L","a","p","t","o","p"," ","S","e","t","u","p">>,
     <<"I","T"," ","S","u","p","p","o","r","t">>, <<"T","e","a","m"," ","L","u","n","c","h">>, <<"L","u","n","c","h">>, <<"D","e","n","t","i","s","t">>, <<"V","a","c","a","t","i","o","n">>,
     <<"D","e","e","p"," ","w","o","r","k"," ","F","r","i","d","a","y">>, <<"D","o"," ","N","o","t"," ","B","o","o","k">>, <<"W","e","e","k","l","y"," ","S","y","n","c">>, <<"G","y","m">>, <<"I","n","t","e","r","v","i","e","w">>,
     <<"S","p","r","i","n","t"," ","P","l","a","n","n","i","n","g">>, <<"T","r","a","i","n","i","n","g">>, <<"S","t","a","n","d","u","p">>, <<"F","O","C","U","S"," ","F","R","I","D","A","Y","S">>,
     <<"F","o","c","u","s"," ","F","r","i","d","a","y"," ","(","P","T","O",")">>}
Descriptions == {<<>>, <<"Q","u","a","r","t","e","r","l","y"," ","c","u","s","t","o","m","e","r"," ","r","e","v","i","e","w">>}
Viewer == [email |-> ViewerEmail, name |-> <<"D","a","n","i","e","l"," ","M","o","r","e","i","r","a">>, status |-> <<"A","C","C","E","P","T","E","D">>]
Jane == [email |-> <<"j","a","n","e","@","a","c","m","e",".","c","o","m">>, name |-> <<"J","a","n","e"," ","D","o","e">>, status |-> <<"A","C","C","E","P","T","E","D">>]
AttendeeLists == {<<>>, <<Viewer, Jane>>}
Statuses == {<<>>, <<"A","C","C","E","P","T","E","D">>, <<"D","E","C","L","I","N","E","D">>, <<"T","E","N","T","A","T","I","V","E">>}
BusyStatuses == {<<>>, <<"B","U","S","Y">>, <<"F","R","E","E">>, <<"O","O","F">>}
Transparencies == {<<>>, <<"O","P","A","Q","U","E">>, <<"T","R","A","N","S","P","A","R","E","N","T">>}

ClassifierEvents ==
    {[CalendarEvent EXCEPT !.summary = t, !.description = d, !.attendees = a,
                           !.status = s, !.busy_status = b, !.transp = x] :
        t \in Titles, d \in Descriptions, a \in AttendeeLists, s \in Statuses,
        b \in BusyStatuses, x \in Transparencies}

\* category = categorize_event_final(event)
Categorize ==
    /\ calls < MaxCalls
    /\ calls' = calls + 1
    /\ category' = <<categorize_event_final(event)>>
    /\ UNCHANGED <<event, relevant>>
    /\ UNCHANGED <<parser_vars, agg_vars>>

\* the filter of analyze_stakeholders and analyze_time_patterns:
\* [e for e in events if is_work_relevant(e)]
Filter ==
    /\ relevant = <<>>
    /\ relevant' = <<is_work_relevant(event)>>
    /\ UNCHANGED <<event, category, calls>>
    /\ UNCHANGED <<parser_vars, agg_vars>>

InitClassify ==
    /\ event \in ClassifierEvents
    /\ category = <<>>
    /\ relevant = <<>>
    /\ calls = 0
    /\ ParserIdle
    /\ AggIdle

NextClassify == Categorize \/ Filter

SpecClassify == InitClassify /\ [][NextClassify]_vars

\* the closed set of category labels
CategoryLabels ==
    {<<"n","o","n","_","m","e","e","t","i","n","g","s","_","e","x","c","l","u","d","e","d">>, <<"d","e","c","l","i","n","e","d","_","t","e","n","t","a","t","i","v","e","_","d","e","c","l","i","n","e","d">>,
     <<"d","e","c","l","i","n","e","d","_","t","e","n","t","a","t","i","v","e","_","t","e","n","t","a","t","i","v","e">>, <<"o","u","t","_","o","f","_","o","f","f","i","c","e">>, <<"p","e","r","s","o","n","a","l","_","t","i","m","e","_","o","f","f">>,
     <<"f","o","c","u","s","_","f","r","i","d","a","y","s","_","e","x","c","l","u","d","e","d">>, <<"w","o","r","k","_","a","d","m","i","n","_","i","t">>, <<"p","e","r","s","o","n","a","l","_","a","p","p","o","i","n","t","m","e","n","t","s","_","e","x","c","l","u","d","e","d">>,
     <<"b","u","s","i","n","e","s","s","_","m","e","a","l","s","_","n","e","t","w","o","r","k","i","n","g">>, <<"b","r","e","a","k","s","_","p","e","r","s","o","n","a","l","_","e","x","c","l","u","d","e","d">>,
     <<"f","r","e","e","_","t","i","m","e","_","t","r","a","n","s","p","a","r","e","n","t","_","e","x","c","l","u","d","e","d">>, <<"c","u","s","t","o","m","e","r","_","e","x","t","e","r","n","a","l">>,
     <<"i","n","t","e","r","n","a","l","_","m","e","e","t","i","n","g","s","_","1","o","n","1","_","s","y","n","c">>, <<"t","r","a","i","n","i","n","g","_","l","e","a","r","n","i","n","g">>, <<"p","l","a","n","n","i","n","g","_","s","t","r","a","t","e","g","y">>,
     <<"r","e","c","r","u","i","t","i","n","g","_","h","i","r","i","n","g">>, <<"f","o","c","u","s","_","t","i","m","e","_","b","l","o","c","k","e","d">>, <<"g","e","n","e","r","a","l","_","w","o","r","k","_","m","e","e","t","i","n","g","s">>,
     <<"u","n","c","a","t","e","g","o","r","i","z","e","d">>}

\* C6: the classifier gives every event exactly one label of the fixed set, a
\* second call on the same event gives the same label, and no call changes
\* the event.
C6_TotalDeterministic ==
    /\ [](category # <<>> => category[1] \in CategoryLabels)
    /\ [][calls' # calls =>
            /\ event' = event
            /\ category' # <<>>
            /\ category # <<>> => category' = category]_vars

\* a declined event with attendees has been classified twice
C6_Witness ==
    /\ calls = 2
    /\ event.status = <<"D","E","C","L","I","N","E","D">>
    /\ Len(event.attendees) > 0
    /\ category = <<<<"d","e","c","l","i","n","e","d","_","t","e","n","t","a","t","i","v","e","_","d","e","c","l","i","n","e","d">>>>

\* C7: an event with no attendees is labelled non_meetings_excluded whatever
\* its other fields are, that label is excluded, and the aggregation filter
\* rejects the event.
C7_NoAttendeesExcluded ==
    Len(event.attendees) = 0 =>
        /\ category # <<>> =>
              /\ category[1] = <<"n","o","n","_","m","e","e","t","i","n","g","s","_","e","x","c","l","u","d","e","d">>
              /\ ~is_work_relevant_final(category[1])
        /\ relevant # <<>> => relevant[1] = FALSE

\* an accepted, busy event titled like a customer meeting but without attendees
\* has been classified and filtered
C7_Witness ==
    /\ Len(event.attendees) = 0
    /\ event.summary = <<"C","u","s","t","o","m","e","r"," ","Q","B","R"," "," ","A","c","m","e"," ","C","o","r","p">>
    /\ event.status = <<"A","C","C","E","P","T","E","D">>
    /\ event.busy_status = <<"B","U","S","Y">>
    /\ category # <<>>
    /\ relevant # <<>>

\* C8: an event whose own status is DECLINED is never work-relevant: its label
\* is rejected by is_work_relevant_final and is_work_relevant returns False.
C8_DeclinedNeverRelevant ==
    event.status = <<"D","E","C","L","I","N","E","D">> =>
        /\ category # <<>> => ~is_work_relevant_final(category[1])
        /\ relevant # <<>> => relevant[1] = FALSE

\* a declined busy customer meeting with attendees has been classified and filtered
C8_Witness ==
    /\ event.status = <<"D","E","C","L","I","N","E","D">>
    /\ Len(event.attendees) > 0
    /\ event.summary = <<"C","u","s","t","o","m","e","r"," ","Q","B","R"," "," ","A","c","m","e"," ","C","o","r","p">>
    /\ event.busy_status = <<"B","U","S","Y">>
    /\ category # <<>>
    /\ relevant # <<>>

\* C11: the aggregation filter and the classifier agree on work-relevance: the
\* filter is_work_relevant accepts an event exactly when the label that
\* categorize_event_final gives it is accepted by is_work_relevant_final.
C11_FiltersAgree ==
    (category # <<>> /\ relevant # <<>>) =>
        relevant[1] = is_work_relevant_final(category[1])

\* the personal-time-off keywords of categorize_event_final
PtoKeywords == {<<"o","u","t"," ","o","f"," ","o","f","f","i","c","e">>, <<"o","o","o">>, <<"p","t","o">>, <<"v","a","c","a","t","i","o","n">>, <<"h","o","l","i","d","a","y">>}

\* the event has attendees, is neither declined nor tentative, and is not
\* marked out of office
LiveMeeting ==
    /\ Len(event.attendees) > 0
    /\ event.status \notin {<<"D","E","C","L","I","N","E","D">>, <<"T","E","N","T","A","T","I","V","E">>}
    /\ event.busy_status # <<"O","O","F">>

\* C16: a live meeting whose title contains 'focus friday' in any letter case
\* and no personal-time-off keyword is labelled focus_fridays_excluded, and
\* that label is not work-relevant.
C16_FocusFridayExcluded ==
    (/\ LiveMeeting
     /\ contains(lower(event.summary), <<"f","o","c","u","s"," ","f","r","i","d","a","y">>)
     /\ ~any_in(lower(event.summary), PtoKeywords)
     /\ category # <<>>) =>
        /\ category[1] = <<"f","o","c","u","s","_","f","r","i","d","a","y","s","_","e","x","c","l","u","d","e","d">>
        /\ ~is_work_relevant_final(category[1])

\* an accepted, busy, opaque event titled in upper case 'FOCUS FRIDAYS' with
\* the viewer and a colleague as attendees has been classified
C16_Witness ==
    /\ LiveMeeting
    /\ event.summary = <<"F","O","C","U","S"," ","F","R","I","D","A","Y","S">>
    /\ event.status = <<"A","C","C","E","P","T","E","D">>
    /\ event.busy_status = <<"B","U","S","Y">>
    /\ event.transp = <<"O","P","A","Q","U","E">>
    /\ category # <<>>

\* titles whose rule keywords are the IT/admin ones
AdminTitles == {<<"N","e","w"," ","L","a","p","t","o","p"," ","S","e","t","u","p">>, <<"I","T"," ","S","u","p","p","o","r","t">>}

\* C17: an accepted, busy event with attendees whose title is 'New Laptop
\* Setup', or another title with only IT/admin keywords, is labelled
\* work_admin_it and is work-relevant.
C17_AdminSetupIsWork ==
    (/\ Len(event.attendees) > 0
     /\ event.status = <<"A","C","C","E","P","T","E","D">>
     /\ event.busy_status = <<"B","U","S","Y">>
     /\ event.summary \in AdminTitles
     /\ category # <<>>) =>
        /\ category[1] = <<"w","o","r","k","_","a","d","m","i","n","_","i","t">>
        /\ is_work_relevant_final(category[1])

\* C18: an event with attendees whose own status is DECLINED or TENTATIVE is
\* labelled declined_tentative_declined or declined_tentative_tentative
\* respectively, whatever its title, description, busy status and
\* transparency are.
C18_DeclineOutranks ==
    (Len(event.attendees) > 0 /\ category # <<>>) =>
        /\ event.status = <<"D","E","C","L","I","N","E","D">> => category[1] = <<"d","e","c","l","i","n","e","d","_","t","e","n","t","a","t","i","v","e","_","d","e","c","l","i","n","e","d">>
        /\ event.status = <<"T","E","N","T","A","T","I","V","E">> => category[1] = <<"d","e","c","l","i","n","e","d","_","t","e","n","t","a","t","i","v","e","_","t","e","n","t","a","t","i","v","e">>

\* a tentative customer meeting with a customer description, marked out of
\* office and transparent, has been classified
C18_Witness ==
    /\ Len(event.attendees) > 0
    /\ event.status = <<"T","E","N","T","A","T","I","V","E">>
    /\ event.summary = <<"C","u","s","t","o","m","e","r"," ","Q","B","R"," "," ","A","c","m","e"," ","C","o","r","p">>
    /\ event.description = <<"Q","u","a","r","t","e","r","l","y"," ","c","u","s","t","o","m","e","r"," ","r","e","v","i","e","w">>
    /\ event.busy_status = <<"O","O","F">>
    /\ event.transp = <<"T","R","A","N","S","P","A","R","E","N","T">>
    /\ category = <<<<"d","e","c","l","i","n","e","d","_","t","e","n","t","a","t","i","v","e","_","t","e","n","t","a","t","i","v","e">>>>

\* the focus-time keywords of categorize_event_final
FocusKeywords ==
    {<<"f","o","c","u","s"," ","t","i","m","e">>, <<"b","l","o","c","k","e","d">>, <<"d","o"," ","n","o","t"," ","b","o","o","k">>, <<"d","n","b">>, <<"h","e","a","d","s"," ","d","o","w","n">>, <<"d","e","e","p"," ","w","o","r","k">>,
     <<"n","o"," ","m","e","e","t","i","n","g","s">>}

\* the titles with a focus-time keyword, without 'focus friday' and without a
\* keyword of an earlier rule
FocusTitles == {<<"D","e","e","p"," ","w","o","r","k"," ","F","r","i","d","a","y">>, <<"D","o"," ","N","o","t"," ","B","o","o","k">>}

\* C19: a live meeting that is neither free nor transparent, has no keyword
\* in its description, and whose title has a focus-time keyword but not
\* 'focus friday' is labelled focus_time_blocked; so is 'Deep work Friday'.
C19_FocusTimeBlocked ==
    (/\ LiveMeeting
     /\ event.busy_status # <<"F","R","E","E">>
     /\ event.transp # <<"T","R","A","N","S","P","A","R","E","N","T">>
     /\ event.description = <<>>
     /\ event.summary \in FocusTitles
     /\ any_in(lower(event.summary), FocusKeywords)
     /\ ~contains(lower(event.summary), <<"f","o","c","u","s"," ","f","r","i","d","a","y">>)
     /\ category # <<>>) =>
        category[1] = <<"f","o","c","u","s","_","t","i","m","e","_","b","l","o","c","k","e","d">>

----------------------------------------------------------------------------
(* The aggregation folds *)

\* longest event list the folds are run on
MaxEvents == 3

\* a customer meeting of one hour, organized by Jane, accepted by the viewer
EvCustomer ==
    DecodeFields(<<
        <<"S","U","M","M","A","R","Y",":","C","u","s","t","o","m","e","r"," ","Q","B","R">>,
        <<"D","T","S","T","A","R","T",":","2","0","2","5","0","1","0","1","T","0","9","0","0","0","0">>,
        <<"D","T","E","N","D",":","2","0","2","5","0","1","0","1","T","1","0","0","0","0","0">>,
        <<"O","R","G","A","N","I","Z","E","R",";","C","N","=","J","a","n","e"," ","D","o","e",":","m","a","i","l","t","o",":","j","a","n","e","@","a","c","m","e",".","c","o","m">>,
        <<"A","T","T","E","N","D","E","E",";","C","N","=","D","a","n","i","e","l"," ","M","o","r","e","i","r","a",";","P","A","R","T","S","T","A","T","=","A","C","C","E","P","T","E","D",":","m","a","i","l","t","o",":","d","a","n","i","e","l",".","m","o","r","e","i","r","a","@","a","u","t","o","d","e","s","k",".","c","o","m">>,
        <<"A","T","T","E","N","D","E","E",";","C","N","=","J","a","n","e"," ","D","o","e",";","P","A","R","T","S","T","A","T","=","A","C","C","E","P","T","E","D",":","m","a","i","l","t","o",":","j","a","n","e","@","a","c","m","e",".","c","o","m">>,
        <<"X","-","M","I","C","R","O","S","O","F","T","-","C","D","O","-","B","U","S","Y","S","T","A","T","U","S",":","B","U","S","Y">>>>)

\* a ten-minute sync organized by the viewer, whose export repeats Jane's line
EvSync ==
    DecodeFields(<<
        <<"S","U","M","M","A","R","Y",":","W","e","e","k","l","y"," ","S","y","n","c">>,
        <<"D","T","S","T","A","R","T",";","T","Z","I","D","=","E","u","r","o","p","e","/","L","o","n","d","o","n",":","2","0","2","5","0","1","0","2","T","1","4","0","0","0","0">>,
        <<"D","T","E","N","D",";","T","Z","I","D","=","E","u","r","o","p","e","/","L","o","n","d","o","n",":","2","0","2","5","0","1","0","2","T","1","4","1","0","0","0">>,
        <<"O","R","G","A","N","I","Z","E","R",";","C","N","=","D","a","n","i","e","l"," ","M","o","r","e","i","r","a",":","m","a","i","l","t","o",":","d","a","n","i","e","l",".","m","o","r","e","i","r","a","@","a","u","t","o","d","e","s","k",".","c","o","m">>,
        <<"A","T","T","E","N","D","E","E",";","C","N","=","D","a","n","i","e","l"," ","M","o","r","e","i","r","a",";","P","A","R","T","S","T","A","T","=","A","C","C","E","P","T","E","D",":","m","a","i","l","t","o",":","d","a","n","i","e","l",".","m","o","r","e","i","r","a","@","a","u","t","o","d","e","s","k",".","c","o","m">>,
        <<"A","T","T","E","N","D","E","E",";","C","N","=","J","a","n","e"," ","D","o","e",";","P","A","R","T","S","T","A","T","=","A","C","C","E","P","T","E","D",":","m","a","i","l","t","o",":","j","a","n","e","@","a","c","m","e",".","c","o","m">>,
        <<"A","T","T","E","N","D","E","E",";","C","N","=","J","a","n","e"," ","D","o","e",";","P","A","R","T","S","T","A","T","=","A","C","C","E","P","T","E","D",":","m","a","i","l","t","o",":","j","a","n","e","@","a","c","m","e",".","c","o","m">>,
        <<"X","-","M","I","C","R","O","S","O","F","T","-","C","D","O","-","B","U","S","Y","S","T","A","T","U","S",":","B","U","S","Y">>>>)

\* a reminder: no title, no attendees, and a start with no date-time token
EvReminder ==
    DecodeFields(<<
        <<"D","T","S","T","A","R","T",":","2","0","2","5","0","1","0","1","T","0","9","=","0","0","0","0">>,
        <<"D","T","E","N","D",":","2","0","2","5","0","1","0","1","T","1","0","0","0","0","0">>,
        <<"X","-","M","I","C","R","O","S","O","F","T","-","C","D","O","-","B","U","S","Y","S","T","A","T","U","S",":","F","R","E","E">>>>)

\* a two-hour demo the viewer declined
EvDeclined ==
    DecodeFields(<<
        <<"S","U","M","M","A","R","Y",":","C","u","s","t","o","m","e","r"," ","D","e","m","o">>,
        <<"D","T","S","T","A","R","T",":","2","0","2","5","0","2","0","3","T","1","0","0","0","0","0">>,
        <<"D","T","E","N","D",":","2","0","2","5","0","2","0","3","T","1","2","0","0","0","0">>,
        <<"O","R","G","A","N","I","Z","E","R",":","m","a","i","l","t","o",":","b","o","b","@","g","m","a","i","l",".","c","o","m">>,
        <<"A","T","T","E","N","D","E","E",";","P","A","R","T","S","T","A","T","=","D","E","C","L","I","N","E","D",":","m","a","i","l","t","o",":","d","a","n","i","e","l",".","m","o","r","e","i","r","a","@","a","u","t","o","d","e","s","k",".","c","o","m">>,
        <<"A","T","T","E","N","D","E","E",";","P","A","R","T","S","T","A","T","=","A","C","C","E","P","T","E","D",":","m","a","i","l","t","o",":","b","o","b","@","g","m","a","i","l",".","c","o","m">>,
        <<"X","-","M","I","C","R","O","S","O","F","T","-","C","D","O","-","B","U","S","Y","S","T","A","T","U","S",":","B","U","S","Y">>>>)

\* an accepted one-hour review whose end is written before its start
EvBackwards ==
    DecodeFields(<<
        <<"S","U","M","M","A","R","Y",":","D","e","s","i","g","n"," ","R","e","v","i","e","w">>,
        <<"D","T","S","T","A","R","T",":","2","0","2","5","0","3","0","3","T","1","0","0","0","0","0">>,
        <<"D","T","E","N","D",":","2","0","2","5","0","3","0","3","T","0","9","0","0","0","0">>,
        <<"O","R","G","A","N","I","Z","E","R",";","C","N","=","J","a","n","e"," ","D","o","e",":","m","a","i","l","t","o",":","j","a","n","e","@","a","c","m","e",".","c","o","m">>,
        <<"A","T","T","E","N","D","E","E",";","C","N","=","D","a","n","i","e","l"," ","M","o","r","e","i","r","a",";","P","A","R","T","S","T","A","T","=","A","C","C","E","P","T","E","D",":","m","a","i","l","t","o",":","d","a","n","i","e","l",".","m","o","r","e","i","r","a","@","a","u","t","o","d","e","s","k",".","c","o","m">>,
        <<"A","T","T","E","N","D","E","E",";","C","N","=","J","a","n","e"," ","D","o","e",";","P","A","R","T","S","T","A","T","=","A","C","C","E","P","T","E","D",":","m","a","i","l","t","o",":","j","a","n","e","@","a","c","m","e",".","c","o","m">>,
        <<"X","-","M","I","C","R","O","S","O","F","T","-","C","D","O","-","B","U","S","Y","S","T","A","T","U","S",":","B","U","S","Y">>>>)

\* an accepted busy meeting on Teams whose export carries no start and no end
EvNoStart ==
    DecodeFields(<<
        <<"S","U","M","M","A","R","Y",":","R","o","a","d","m","a","p">>,
        <<"L","O","C","A","T","I","O","N",":","h","t","t","p","s",":","/","/","t","e","a","m","s",".","m","i","c","r","o","s","o","f","t",".","c","o","m","/","l","/","m","e","e","t","u","p">>,
        <<"R","R","U","L","E",":","F","R","E","Q","=","W","E","E","K","L","Y">>,
        <<"A","T","T","E","N","D","E","E",";","P","A","R","T","S","T","A","T","=","A","C","C","E","P","T","E","D",":","m","a","i","l","t","o",":","d","a","n","i","e","l",".","m","o","r","e","i","r","a","@","a","u","t","o","d","e","s","k",".","c","o","m">>,
        <<"A","T","T","E","N","D","E","E",";","P","A","R","T","S","T","A","T","=","A","C","C","E","P","T","E","D",":","m","a","i","l","t","o",":","b","o","b","@","g","m","a","i","l",".","c","o","m">>,
        <<"X","-","M","I","C","R","O","S","O","F","T","-","C","D","O","-","B","U","S","Y","S","T","A","T","U","S",":","B","U","S","Y">>>>)

AggSamples == {EvCustomer, EvSync, EvReminder, EvDeclined, EvBackwards, EvNoStart}

EventLists == UNION {[1..n -> AggSamples] : n \in 0..MaxEvents}

\* a dict as a function on the keys it holds; <<>> is the empty dict
dict_get(d, k, default) == IF k \in DOMAIN d THEN d[k] ELSE default
dict_put(d, k, v) == [x \in (DOMAIN d) \cup {k} |-> IF x = k THEN v ELSE d[x]]

\* sum(f[x] for x in S)
RECURSIVE sum_of(_, _)
sum_of(f, S) ==
    IF S = {} THEN 0
    ELSE LET x == CHOOSE y \in S : TRUE IN f[x] + sum_of(f, S \ {x})

\* sum(e.get_duration_hours() for e in evs)
sum_durations(evs) ==
    sum_of([i \in 1..Len(evs) |-> get_duration_hours(evs[i])], 1..Len(evs))

\* round(h, 2) in hundredths of an hour, for h given in units of 1/3600 hour;
\* a tie goes to the even hundredth
round2(h) ==
    LET q == (h * 100) \div Hour
        r == (h * 100) % Hour
    IN IF 2 * r > Hour \/ (2 * r = Hour /\ q % 2 = 1) THEN q + 1 ELSE q

SampleSize == 5
SummaryWidth == 80
StartWidth == 15

\* s[:n]
head_of(s, n) == SubSeq(s, 1, Min(Len(s), n))

\* categorize_event(event) of analyze_calendar.py
categorize_event(e) ==
    LET summary_lower == lower(e.summary)
        desc_lower == lower(e.description)
    IN IF e.status \in {<<"D","E","C","L","I","N","E","D">>, <<"T","E","N","T","A","T","I","V","E">>} THEN declined_label(e.status)
       ELSE IF e.busy_status = <<"O","O","F">> THEN <<"o","u","t","_","o","f","_","o","f","f","i","c","e">>
       ELSE IF any_in(summary_lower,
                {<<"o","u","t"," ","o","f"," ","o","f","f","i","c","e">>, <<"o","o","o">>, <<"p","t","o">>, <<"v","a","c","a","t","i","o","n">>, <<"h","o","l","i","d","a","y">>,
                 <<"p","e","r","s","o","n","a","l">>, <<"d","e","n","t","i","s","t">>, <<"d","o","c","t","o","r">>, <<"a","p","p","o","i","n","t","m","e","n","t">>})
            THEN <<"p","e","r","s","o","n","a","l","_","t","i","m","e","_","o","f","f">>
       ELSE IF any_in(summary_lower,
                {<<"l","u","n","c","h">>, <<"b","r","e","a","k","f","a","s","t">>, <<"d","i","n","n","e","r">>, <<"c","o","f","f","e","e"," ","b","r","e","a","k">>, <<"b","r","e","a","k">>,
                 <<"g","y","m">>, <<"w","o","r","k","o","u","t">>, <<"e","x","e","r","c","i","s","e">>})
            THEN <<"b","r","e","a","k","s","_","p","e","r","s","o","n","a","l","_","c","a","r","e">>
       ELSE IF e.transp = <<"T","R","A","N","S","P","A","R","E","N","T">> \/ e.busy_status = <<"F","R","E","E">>
            THEN <<"f","r","e","e","_","t","i","m","e","_","t","r","a","n","s","p","a","r","e","n","t">>
       ELSE IF any_in(summary_lower,
                {<<"1",":","1">>, <<"o","n","e"," ","o","n"," ","o","n","e">>, <<"1","-","1">>, <<"s","y","n","c">>, <<"s","t","a","n","d","u","p">>, <<"s","t","a","n","d","-","u","p">>,
                 <<"t","e","a","m"," ","m","e","e","t","i","n","g">>, <<"a","l","l"," ","h","a","n","d","s">>, <<"t","o","w","n"," ","h","a","l","l">>, <<"s","k","i","p"," ","l","e","v","e","l">>})
            THEN <<"i","n","t","e","r","n","a","l","_","m","e","e","t","i","n","g","s","_","1","o","n","1","_","s","y","n","c">>
       ELSE IF \E k \in {<<"c","u","s","t","o","m","e","r">>, <<"c","l","i","e","n","t">>, <<"e","x","t","e","r","n","a","l">>, <<"d","e","m","o">>, <<"p","r","e","s","e","n","t","a","t","i","o","n">>,
                         <<"s","a","l","e","s">>, <<"p","r","o","s","p","e","c","t">>} :
                    contains(summary_lower, k) \/ contains(desc_lower, k)
            THEN <<"c","u","s","t","o","m","e","r","_","e","x","t","e","r","n","a","l">>
       ELSE IF any_in(summary_lower,
                {<<"t","r","a","i","n","i","n","g">>, <<"w","o","r","k","s","h","o","p">>, <<"l","e","a","r","n","i","n","g">>, <<"c","o","u","r","s","e">>, <<"w","e","b","i","n","a","r">>,
                 <<"c","e","r","t","i","f","i","c","a","t","i","o","n">>, <<"o","n","b","o","a","r","d","i","n","g">>})
            THEN <<"t","r","a","i","n","i","n","g","_","l","e","a","r","n","i","n","g">>
       ELSE IF any_in(summary_lower,
                {<<"p","l","a","n","n","i","n","g">>, <<"r","o","a","d","m","a","p">>, <<"s","t","r","a","t","e","g","y">>, <<"r","e","v","i","e","w">>, <<"r","e","t","r","o","s","p","e","c","t","i","v","e">>,
                 <<"s","p","r","i","n","t">>, <<"s","c","r","u","m">>, <<"p","r","o","j","e","c","t">>, <<"i","n","i","t","i","a","t","i","v","e">>})
            THEN <<"p","l","a","n","n","i","n","g","_","s","t","r","a","t","e","g","y">>
       ELSE IF any_in(summary_lower,
                {<<"i","n","t","e","r","v","i","e","w">>, <<"c","a","n","d","i","d","a","t","e">>, <<"h","i","r","i","n","g">>, <<"r","e","c","r","u","i","t","i","n","g">>, <<"s","c","r","e","e","n","i","n","g">>})
            THEN <<"r","e","c","r","u","i","t","i","n","g","_","h","i","r","i","n","g">>
       ELSE IF any_in(summary_lower,
                {<<"f","o","c","u","s">>, <<"f","o","c","u","s"," ","t","i","m","e">>, <<"b","l","o","c","k","e","d">>, <<"d","o"," ","n","o","t"," ","b","o","o","k">>, <<"d","n","b">>,
                 <<"h","e","a","d","s"," ","d","o","w","n">>, <<"d","e","e","p"," ","w","o","r","k">>, <<"n","o"," ","m","e","e","t","i","n","g","s">>})
            THEN <<"f","o","c","u","s","_","t","i","m","e","_","b","l","o","c","k","e","d">>
       ELSE IF e.busy_status = <<"B","U","S","Y">> \/ e.transp = <<"O","P","A","Q","U","E">>
            THEN <<"g","e","n","e","r","a","l","_","w","o","r","k","_","m","e","e","t","i","n","g","s">>
       ELSE <<"u","n","c","a","t","e","g","o","r","i","z","e","d">>

\* analyze_calendar: stats as first built, before the loop
initial_stats(evs) ==
    [total_events |-> Len(evs), by_category |-> <<>>, by_status |-> <<>>,
     by_busy_status |-> <<>>, total_hours_by_category |-> <<>>]

\* analyze_calendar: one entry of sample_events
calendar_sample(e) ==
    [summary |-> head_of(e.summary, SummaryWidth),
     start |-> IF e.dtstart # <<>>
               THEN head_of(split_last(e.dtstart, <<":">>), StartWidth) ELSE <<>>,
     duration_hours |-> round2(get_duration_hours(e)),
     status |-> e.status,
     busy_status |-> e.busy_status]

\* analyze_calendar: stats['by_category'] as built after the loop
calendar_by_category(cats, hours) ==
    [c \in DOMAIN cats |->
        [count |-> Len(cats[c]),
         total_hours |-> round2(hours[c]),
         sample_events |->
            [i \in 1..Min(Len(cats[c]), SampleSize) |-> calendar_sample(cats[c][i])]]]

\* analyze_calendar(events) is called
CalendarStart ==
    /\ agg_pc = "start"
    /\ agg_pc' = "analyze_calendar"
    /\ stats' = initial_stats(agg_events)
    /\ UNCHANGED <<agg_events, agg_i, categorized, main_totals, output, cal_categories,
                   work_events, stakeholder_meetings, organizer_stats, time_stats>>
    /\ UNCHANGED <<parser_vars, classifier_vars>>

\* analyze_calendar: one iteration of `for event in events`
CalendarStep ==
    /\ agg_pc = "analyze_calendar"
    /\ agg_i < Len(agg_events)
    /\ agg_i' = agg_i + 1
    /\ LET e == agg_events[agg_i + 1]
           cat == categorize_event(e)
           duration == get_duration_hours(e)
       IN /\ cal_categories' =
                dict_put(cal_categories, cat, Append(dict_get(cal_categories, cat, <<>>), e))
          /\ stats' =
                [stats EXCEPT
                    !.total_hours_by_category = dict_put(@, cat, dict_get(@, cat, 0) + duration),
                    !.by_status = IF e.status # <<>>
                                  THEN dict_put(@, e.status, dict_get(@, e.status, 0) + 1)
                                  ELSE @,
                    !.by_busy_status =
                        IF e.busy_status # <<>>
                        THEN dict_put(@, e.busy_status, dict_get(@, e.busy_status, 0) + 1)
                        ELSE @]
    /\ UNCHANGED <<agg_pc, agg_events, categorized, main_totals, output,
                   work_events, stakeholder_meetings, organizer_stats, time_stats>>
    /\ UNCHANGED <<parser_vars, classifier_vars>>

\* analyze_calendar: the category stats after the loop, and the return
CalendarFinish ==
    /\ agg_pc = "analyze_calendar"
    /\ agg_i = Len(agg_events)
    /\ agg_pc' = "analyze_calendar_done"
    /\ stats' = [stats EXCEPT !.by_category =
                    calendar_by_category(cal_categories, stats.total_hours_by_category)]
    /\ UNCHANGED <<agg_events, agg_i, categorized, main_totals, output, cal_categories,
                   work_events, stakeholder_meetings, organizer_stats, time_stats>>
    /\ UNCHANGED <<parser_vars, classifier_vars>>

\* as count_events with the categories counted instead of their events
count_categories(cats, keys) == Cardinality(keys)

\* main: sum(len(categorized[cat]) for cat in keys)
count_events(cats, keys) == sum_of([c \in keys |-> Len(cats[c])], keys)

\* main: sum(sum(e.get_duration_hours() for e in categorized[cat]) for cat in keys)
sum_hours(cats, keys) == sum_of([c \in keys |-> sum_durations(cats[c])], keys)

\* main: the statistics computed from categorized
totals_of(evs, cats) ==
    LET work_categories == {c \in DOMAIN cats : is_work_relevant_final(c)}
        excluded == {c \in DOMAIN cats : ~is_work_relevant_final(c)}
    IN [total_events |-> Len(evs),
        work_events |-> count_events(cats, work_categories),
        excluded_events |-> count_events(cats, excluded),
        work_hours |-> sum_hours(cats, work_categories),
        excluded_hours |-> sum_hours(cats, excluded)]

\* main: categorized after the report lines that index it by a fixed label,
\* which a defaultdict answers by inserting an empty list
after_report(cats) ==
    LET a == IF <<"n","o","n","_","m","e","e","t","i","n","g","s","_","e","x","c","l","u","d","e","d">> \in DOMAIN cats THEN cats
             ELSE dict_put(cats, <<"n","o","n","_","m","e","e","t","i","n","g","s","_","e","x","c","l","u","d","e","d">>, <<>>)
    IN IF <<"u","n","c","a","t","e","g","o","r","i","z","e","d">> \in DOMAIN a THEN a ELSE dict_put(a, <<"u","n","c","a","t","e","g","o","r","i","z","e","d">>, <<>>)

\* main: output
output_of(totals, cats) ==
    [summary |->
        [total_events |-> totals.total_events,
         work_relevant_events |-> totals.work_events,
         work_relevant_hours |-> round2(totals.work_hours),
         excluded_events |-> totals.excluded_events,
         excluded_hours |-> round2(totals.excluded_hours)],
     by_category |->
        [c \in DOMAIN cats |->
            [count |-> Len(cats[c]),
             hours |-> round2(sum_durations(cats[c])),
             is_work_relevant |-> is_work_relevant_final(c),
             sample_events |->
                [i \in 1..Min(Len(cats[c]), SampleSize) |->
                    [summary |-> head_of(cats[c][i].summary, SummaryWidth),
                     duration_hours |-> round2(get_duration_hours(cats[c][i]))]]]]]

\* main() has parsed the file
MainStart ==
    /\ agg_pc = "start"
    /\ agg_pc' = "main"
    /\ UNCHANGED <<agg_events, agg_i, categorized, main_totals, output, cal_categories,
                   stats, work_events, stakeholder_meetings, organizer_stats, time_stats>>
    /\ UNCHANGED <<parser_vars, classifier_vars>>

\* main: one iteration of `for event in events`
MainStep ==
    /\ agg_pc = "main"
    /\ agg_i < Len(agg_events)
    /\ agg_i' = agg_i + 1
    /\ LET e == agg_events[agg_i + 1]
           cat == categorize_event_final(e)
       IN categorized' =
            dict_put(categorized, cat, Append(dict_get(categorized, cat, <<>>), e))
    /\ UNCHANGED <<agg_pc, agg_events, main_totals, output, cal_categories, stats,
                   work_events, stakeholder_meetings, organizer_stats, time_stats>>
    /\ UNCHANGED <<parser_vars, classifier_vars>>

\* main: the statistics, the report and the exported output; on an empty event
\* list the report divides by total_events and raises ZeroDivisionError
MainFinish ==
    /\ agg_pc = "main"
    /\ agg_i = Len(agg_events)
    /\ main_totals' = <<totals_of(agg_events, categorized)>>
    /\ IF Len(agg_events) = 0
       THEN /\ agg_pc' = "main_raised"
            /\ UNCHANGED <<categorized, output, time_stats>>
       ELSE /\ agg_pc' = "main_done"
            /\ categorized' = after_report(categorized)
            /\ output' = <<output_of(totals_of(agg_events, categorized),
                                     after_report(categorized))>>
    /\ UNCHANGED <<agg_events, agg_i, cal_categories, stats,
                   work_events, stakeholder_meetings, organizer_stats, time_stats>>
    /\ UNCHANGED <<parser_vars, classifier_vars>>

\* extract_company_from_email(email)
extract_company_from_email(email) ==
    IF email = <<>> \/ ~contains(email, <<"@">>) THEN <<"U","n","k","n","o","w","n">>
    ELSE LET domain == lower(split(email, <<"@">>)[2])
         IN IF contains(domain, <<"a","u","t","o","d","e","s","k">>) THEN <<"A","u","t","o","d","e","s","k"," ","(","I","n","t","e","r","n","a","l",")">>
            ELSE IF domain \in {<<"g","m","a","i","l",".","c","o","m">>, <<"o","u","t","l","o","o","k",".","c","o","m">>, <<"h","o","t","m","a","i","l",".","c","o","m">>, <<"y","a","h","o","o",".","c","o","m">>}
            THEN <<"P","e","r","s","o","n","a","l"," ","E","m","a","i","l">>
            ELSE title(split_first(domain, <<".">>))

\* categorize_meeting_type(event)
categorize_meeting_type(e) ==
    LET summary_lower == lower(e.summary)
        desc_lower == lower(e.description)
    IN IF any_in(summary_lower,
            {<<"1",":","1">>, <<"o","n","e"," ","o","n"," ","o","n","e">>, <<"1","-","1">>, <<"s","y","n","c">>, <<"c","a","t","c","h"," ","u","p">>, <<"c","h","e","c","k"," ","i","n">>})
       THEN <<"1",":","1"," ","&"," ","S","y","n","c","s">>
       ELSE IF \E k \in {<<"c","u","s","t","o","m","e","r">>, <<"c","l","i","e","n","t">>, <<"e","x","t","e","r","n","a","l">>, <<"d","e","m","o">>, <<"p","r","e","s","e","n","t","a","t","i","o","n">>} :
                    contains(summary_lower, k) \/ contains(desc_lower, k)
            THEN <<"C","u","s","t","o","m","e","r","/","E","x","t","e","r","n","a","l">>
       ELSE IF any_in(summary_lower,
                {<<"t","e","a","m"," ","m","e","e","t","i","n","g">>, <<"s","t","a","n","d","u","p">>, <<"s","t","a","n","d","-","u","p">>, <<"a","l","l"," ","h","a","n","d","s">>, <<"t","o","w","n"," ","h","a","l","l">>})
            THEN <<"T","e","a","m"," ","M","e","e","t","i","n","g","s">>
       ELSE IF any_in(summary_lower,
                {<<"t","r","a","i","n","i","n","g">>, <<"w","o","r","k","s","h","o","p">>, <<"l","e","a","r","n","i","n","g">>, <<"c","o","u","r","s","e">>, <<"w","e","b","i","n","a","r">>})
            THEN <<"T","r","a","i","n","i","n","g","/","L","e","a","r","n","i","n","g">>
       ELSE IF any_in(summary_lower,
                {<<"p","l","a","n","n","i","n","g">>, <<"r","o","a","d","m","a","p">>, <<"s","t","r","a","t","e","g","y">>, <<"r","e","v","i","e","w">>, <<"r","e","t","r","o","s","p","e","c","t","i","v","e">>,
                 <<"s","p","r","i","n","t">>})
            THEN <<"P","l","a","n","n","i","n","g","/","S","t","r","a","t","e","g","y">>
       ELSE IF any_in(summary_lower, {<<"f","o","c","u","s">>, <<"b","l","o","c","k","e","d">>, <<"d","o"," ","n","o","t"," ","b","o","o","k">>, <<"h","e","a","d","s"," ","d","o","w","n">>})
            THEN <<"F","o","c","u","s"," ","T","i","m","e">>
       ELSE <<"G","e","n","e","r","a","l"," ","M","e","e","t","i","n","g","s">>

\* as new_stakeholder with a first meeting already counted
new_stakeholder_counted ==
    [count |-> 1, hours |-> 0, as_organizer |-> 0, as_attendee |-> 0,
     companies |-> {}, meeting_types |-> <<>>, months_active |-> {}]

\* the default entry of stakeholder_meetings
new_stakeholder ==
    [count |-> 0, hours |-> 0, as_organizer |-> 0, as_attendee |-> 0,
     companies |-> {}, meeting_types |-> <<>>, months_active |-> {}]

\* the default entry of organizer_stats
new_organizer == [count |-> 0, hours |-> 0, company |-> <<>>, months_active |-> {}]

\* 'daniel.moreira' in email.lower()
is_self(email) == contains(lower(email), <<"d","a","n","i","e","l",".","m","o","r","e","i","r","a">>)

\* key = name if name else email
stakeholder_key(attendee) ==
    IF attendee.name # <<>> THEN attendee.name ELSE attendee.email

\* analyze_stakeholders: the body of `for attendee in event.attendees`
track_attendee(sm, e, attendee) ==
    IF is_self(attendee.email) THEN sm
    ELSE LET key == stakeholder_key(attendee)
             month == get_month(e)
             meeting_type == categorize_meeting_type(e)
             rec == dict_get(sm, key, new_stakeholder)
         IN dict_put(sm, key,
                [rec EXCEPT
                    !.count = @ + 1,
                    !.hours = @ + get_duration_hours(e),
                    !.companies = @ \cup {extract_company_from_email(attendee.email)},
                    !.meeting_types =
                        dict_put(@, meeting_type, dict_get(@, meeting_type, 0) + 1),
                    !.months_active = IF month # <<>> THEN @ \cup {month} ELSE @,
                    !.as_organizer = IF e.organizer = ViewerEmail THEN @ + 1 ELSE @,
                    !.as_attendee = IF e.organizer = ViewerEmail THEN @ ELSE @ + 1])

\* analyze_stakeholders: `for attendee in event.attendees`, in list order
RECURSIVE track_attendees(_, _, _)
track_attendees(sm, e, attendees) ==
    IF attendees = <<>> THEN sm
    ELSE track_attendee(track_attendees(sm, e, SubSeq(attendees, 1, Len(attendees) - 1)),
                        e, attendees[Len(attendees)])

\* analyze_stakeholders: the organizer block of the loop body
track_organizer(os, e) ==
    IF e.organizer # <<>> /\ e.organizer # ViewerEmail
    THEN LET org_key == IF e.organizer_name # <<>> THEN e.organizer_name ELSE e.organizer
             month == get_month(e)
             rec == dict_get(os, org_key, new_organizer)
         IN dict_put(os, org_key,
                [rec EXCEPT
                    !.count = @ + 1,
                    !.hours = @ + get_duration_hours(e),
                    !.company = extract_company_from_email(e.organizer),
                    !.months_active = IF month # <<>> THEN @ \cup {month} ELSE @])
    ELSE os

\* analyze_stakeholders(events) is called: work_events is filtered
StakeholdersStart ==
    /\ agg_pc = "start"
    /\ agg_pc' = "analyze_stakeholders"
    /\ work_events' = SelectSeq(agg_events, is_work_relevant)
    /\ UNCHANGED <<agg_events, agg_i, categorized, main_totals, output, cal_categories,
                   stats, stakeholder_meetings, organizer_stats, time_stats>>
    /\ UNCHANGED <<parser_vars, classifier_vars>>

\* analyze_stakeholders: one iteration of `for event in work_events`
StakeholdersStep ==
    /\ agg_pc = "analyze_stakeholders"
    /\ agg_i < Len(work_events)
    /\ agg_i' = agg_i + 1
    /\ organizer_stats' = track_organizer(organizer_stats, work_events[agg_i + 1])
    /\ stakeholder_meetings' =
          track_attendees(stakeholder_meetings, work_events[agg_i + 1],
                          work_events[agg_i + 1].attendees)
    /\ UNCHANGED <<agg_pc, agg_events, categorized, main_totals, output, cal_categories,
                   stats, work_events, time_stats>>
    /\ UNCHANGED <<parser_vars, classifier_vars>>

\* analyze_stakeholders returns
StakeholdersFinish ==
    /\ agg_pc = "analyze_stakeholders"
    /\ agg_i = Len(work_events)
    /\ agg_pc' = "analyze_stakeholders_done"
    /\ UNCHANGED <<agg_events, agg_i, categorized, main_totals, output, cal_categories,
                   stats, work_events, stakeholder_meetings, organizer_stats, time_stats>>
    /\ UNCHANGED <<parser_vars, classifier_vars>>

\* as new_bucket with a first event already counted
new_bucket_one == [count |-> 1, hours |-> 0]

\* the default entry of a by_* view of analyze_time_patterns
new_bucket == [count |-> 0, hours |-> 0]

\* stats[view][key]['count'] += 1; stats[view][key]['hours'] += hours
add_to_bucket(view, key, hours) ==
    dict_put(view, key,
             [count |-> dict_get(view, key, new_bucket).count + 1,
              hours |-> dict_get(view, key, new_bucket).hours + hours])

\* analyze_time_patterns: the `by month` block, skipped for an empty month
add_to_month(view, month, hours) ==
    IF month # <<>> THEN add_to_bucket(view, month, hours) ELSE view

\* analyze_time_patterns: companies, the set of the attendees' companies
companies_of(e) ==
    {extract_company_from_email(e.attendees[j].email) : j \in 1..Len(e.attendees)}

\* the whole duration for every company
company_share_whole(duration, n) == duration * 6

\* duration / len(companies), kept in sixths of the unit of duration so that a
\* split over one, two or three companies is exact
company_share(duration, n) == (duration * 6) \div n

\* analyze_time_patterns: the `for company in companies` loop
add_to_companies(view, e) ==
    LET companies == companies_of(e)
        share == company_share(get_duration_hours(e), Cardinality(companies))
    IN [c \in (DOMAIN view) \cup companies |->
            IF c \in companies
            THEN [count |-> dict_get(view, c, new_bucket).count + 1,
                  hours |-> dict_get(view, c, new_bucket).hours + share]
            ELSE view[c]]

\* analyze_time_patterns: location
location_of(e) ==
    LET location == IF e.location # <<>> THEN e.location ELSE <<"N","o"," ","L","o","c","a","t","i","o","n">>
    IN IF contains(lower(location), <<"t","e","a","m","s",".","m","i","c","r","o","s","o","f","t",".","c","o","m">>)
          \/ contains(lower(location), <<"z","o","o","m">>)
       THEN <<"V","i","r","t","u","a","l"," ","(","T","e","a","m","s","/","Z","o","o","m",")">>
       ELSE IF location # <<>> /\ location # <<"N","o"," ","L","o","c","a","t","i","o","n">> THEN <<"P","h","y","s","i","c","a","l"," ","L","o","c","a","t","i","o","n">>
       ELSE location

\* analyze_time_patterns: size
size_of(e) ==
    LET attendee_count == Len(e.attendees)
    IN IF attendee_count <= 2 THEN <<"1",":","1"," ","(","2"," ","p","e","o","p","l","e",")">>
       ELSE IF attendee_count <= 5 THEN <<"S","m","a","l","l"," ","(","3","-","5"," ","p","e","o","p","l","e",")">>
       ELSE IF attendee_count <= 10 THEN <<"M","e","d","i","u","m"," ","(","6","-","1","0"," ","p","e","o","p","l","e",")">>
       ELSE IF attendee_count <= 20 THEN <<"L","a","r","g","e"," ","(","1","1","-","2","0"," ","p","e","o","p","l","e",")">>
       ELSE <<"V","e","r","y"," ","L","a","r","g","e"," ","(","2","0","+"," ","p","e","o","p","l","e",")">>

\* analyze_time_patterns: the recurring / ad-hoc block
add_to_recurring(r, e) ==
    IF e.is_recurring
    THEN [r EXCEPT !.recurring = @ + 1, !.recurring_hours = @ + get_duration_hours(e)]
    ELSE [r EXCEPT !.adhoc = @ + 1, !.adhoc_hours = @ + get_duration_hours(e)]

\* analyze_time_patterns: the body of `for event in work_events`
track_event(ts, e) ==
    LET duration == get_duration_hours(e)
    IN [by_month |-> add_to_month(ts.by_month, get_month(e), duration),
        by_day_of_week |-> add_to_bucket(ts.by_day_of_week, get_day_of_week(e), duration),
        by_time_of_day |-> add_to_bucket(ts.by_time_of_day, get_time_of_day(e), duration),
        by_meeting_type |->
            add_to_bucket(ts.by_meeting_type, categorize_meeting_type(e), duration),
        by_company |-> add_to_companies(ts.by_company, e),
        by_location |-> add_to_bucket(ts.by_location, location_of(e), duration),
        meeting_size_distribution |->
            dict_put(ts.meeting_size_distribution, size_of(e),
                     dict_get(ts.meeting_size_distribution, size_of(e), 0) + 1),
        recurring_vs_adhoc |-> add_to_recurring(ts.recurring_vs_adhoc, e)]

\* analyze_time_patterns(events) is called: work_events is filtered
TimePatternsStart ==
    /\ agg_pc = "start"
    /\ agg_pc' = "analyze_time_patterns"
    /\ work_events' = SelectSeq(agg_events, is_work_relevant)
    /\ time_stats' = new_time_stats
    /\ UNCHANGED <<agg_events, agg_i, categorized, main_totals, output, cal_categories,
                   stats, stakeholder_meetings, organizer_stats>>
    /\ UNCHANGED <<parser_vars, classifier_vars>>

\* analyze_time_patterns: one iteration of `for event in work_events`
TimePatternsStep ==
    /\ agg_pc = "analyze_time_patterns"
    /\ agg_i < Len(work_events)
    /\ agg_i' = agg_i + 1
    /\ time_stats' = track_event(time_stats, work_events[agg_i + 1])
    /\ UNCHANGED <<agg_pc, agg_events, categorized, main_totals, output, cal_categories,
                   stats, work_events, stakeholder_meetings, organizer_stats>>
    /\ UNCHANGED <<parser_vars, classifier_vars>>

\* analyze_time_patterns returns
TimePatternsFinish ==
    /\ agg_pc = "analyze_time_patterns"
    /\ agg_i = Len(work_events)
    /\ agg_pc' = "analyze_time_patterns_done"
    /\ UNCHANGED <<agg_events, agg_i, categorized, main_totals, output, cal_categories,
                   stats, work_events, stakeholder_meetings, organizer_stats, time_stats>>
    /\ UNCHANGED <<parser_vars, classifier_vars>>

\* the division x / y of a report line raises ZeroDivisionError
divides_by_zero(y) == y = 0

\* print_analysis: total_hours = sum(stats['total_hours_by_category'].values())
print_analysis_total_hours(st) ==
    sum_of(st.total_hours_by_category, DOMAIN st.total_hours_by_category)

\* print_analysis(categories, stats): it only prints, and its last block divides
\* by stats['total_events'] and by total_hours
PrintAnalysis ==
    /\ agg_pc = "analyze_calendar_done"
    /\ agg_pc' = IF divides_by_zero(stats.total_events)
                    \/ divides_by_zero(print_analysis_total_hours(stats))
                 THEN "print_analysis_raised"
                 ELSE "print_analysis_done"
    /\ UNCHANGED <<agg_events, agg_i, categorized, main_totals, output, cal_categories,
                   stats, work_events, stakeholder_meetings, organizer_stats, time_stats>>
    /\ UNCHANGED <<parser_vars, classifier_vars>>

\* print_stakeholder_report: total_meetings of the recurring / ad-hoc block
report_total_meetings(ts) == ts.recurring_vs_adhoc.recurring + ts.recurring_vs_adhoc.adhoc

\* print_stakeholder_report(stakeholder_data, time_stats): it only prints, and
\* its last block divides by total_meetings
PrintStakeholderReport ==
    /\ agg_pc = "analyze_time_patterns_done"
    /\ agg_pc' = IF divides_by_zero(report_total_meetings(time_stats))
                 THEN "print_stakeholder_report_raised"
                 ELSE "print_stakeholder_report_done"
    /\ UNCHANGED <<agg_events, agg_i, categorized, main_totals, output, cal_categories,
                   stats, work_events, stakeholder_meetings, organizer_stats, time_stats>>
    /\ UNCHANGED <<parser_vars, classifier_vars>>

\* show_summary: total_meetings = sum(m['count'] for m in by_month.values())
summary_total_meetings(ts) ==
    sum_of([k \in DOMAIN ts.by_month |-> ts.by_month[k].count], DOMAIN ts.by_month)

\* show_summary(data) on the exported time_stats: it only prints, and its
\* average duration divides by total_meetings
ShowSummary ==
    /\ agg_pc = "print_stakeholder_report_done"
    /\ agg_pc' = IF divides_by_zero(summary_total_meetings(time_stats))
                 THEN "show_summary_raised"
                 ELSE "show_summary_done"
    /\ UNCHANGED <<agg_events, agg_i, categorized, main_totals, output, cal_categories,
                   stats, work_events, stakeholder_meetings, organizer_stats, time_stats>>
    /\ UNCHANGED <<parser_vars, classifier_vars>>

EmptyStats == initial_stats(<<>>)

InitAggregate ==
    /\ agg_pc = "start"
    /\ agg_events \in EventLists
    /\ agg_i = 0
    /\ categorized = <<>>
    /\ main_totals = <<>>
    /\ output = <<>>
    /\ cal_categories = <<>>
    /\ stats = EmptyStats
    /\ work_events = <<>>
    /\ stakeholder_meetings = <<>>
    /\ organizer_stats = <<>>
    /\ time_stats = new_time_stats
    /\ ParserIdle
    /\ ClassifierIdle

NextAggregate ==
    \/ CalendarStart \/ CalendarStep \/ CalendarFinish
    \/ MainStart \/ MainStep \/ MainFinish
    \/ StakeholdersStart \/ StakeholdersStep \/ StakeholdersFinish
    \/ TimePatternsStart \/ TimePatternsStep \/ TimePatternsFinish
    \/ PrintAnalysis \/ PrintStakeholderReport \/ ShowSummary

SpecAggregate == InitAggregate /\ [][NextAggregate]_vars

\* the positions of evs whose event is given the label c by label_of
Labelled(evs, label_of, c) == {i \in 1..Len(evs) : label_of[evs[i]] = c}

\* the summed duration of the events of evs at the positions in S
DurationOver(evs, S) == sum_of([i \in 1..Len(evs) |-> get_duration_hours(evs[i])], S)

FinalLabel == [e \in AggSamples |-> categorize_event_final(e)]
CalendarLabel == [e \in AggSamples |-> categorize_event(e)]

\* the partition property of main() of rerun_analysis_improved.py
MainPartitions ==
    LET by == output[1].by_category
        totals == main_totals[1]
    IN /\ \A i \in 1..Len(agg_events) : FinalLabel[agg_events[i]] \in DOMAIN by
       /\ \A c \in DOMAIN by :
            /\ by[c].count = Cardinality(Labelled(agg_events, FinalLabel, c))
            /\ sum_durations(categorized[c])
                   = DurationOver(agg_events, Labelled(agg_events, FinalLabel, c))
            /\ by[c].hours
                   = round2(DurationOver(agg_events, Labelled(agg_events, FinalLabel, c)))
       /\ sum_of([c \in DOMAIN by |-> by[c].count], DOMAIN by) = totals.total_events
       /\ totals.total_events = Len(agg_events)
       /\ totals.work_events + totals.excluded_events = totals.total_events
       /\ totals.work_hours + totals.excluded_hours = sum_durations(agg_events)
       /\ output[1].summary.work_relevant_events + output[1].summary.excluded_events
              = output[1].summary.total_events

\* the partition property of analyze_calendar
CalendarPartitions ==
    LET by == stats.by_category
    IN /\ \A i \in 1..Len(agg_events) : CalendarLabel[agg_events[i]] \in DOMAIN by
       /\ DOMAIN stats.total_hours_by_category = DOMAIN by
       /\ \A c \in DOMAIN by :
            /\ by[c].count = Cardinality(Labelled(agg_events, CalendarLabel, c))
            /\ stats.total_hours_by_category[c]
                   = DurationOver(agg_events, Labelled(agg_events, CalendarLabel, c))
            /\ by[c].total_hours = round2(stats.total_hours_by_category[c])
       /\ sum_of([c \in DOMAIN by |-> by[c].count], DOMAIN by) = stats.total_events
       /\ stats.total_events = Len(agg_events)

\* C9: by-category aggregation partitions the events. When analyze_calendar or
\* main has folded an event sequence, each category's count is the number of
\* events given that label, its accumulated hours are the sum of those events'
\* durations (0 for a malformed duration; the exported figure is that sum
\* rounded to two decimals), the counts over all categories sum to
\* total_events, and the work-relevant count plus the excluded count is
\* total_events.
C9_CategoriesPartitionEvents ==
    /\ agg_pc = "main_done" => MainPartitions
    /\ agg_pc = "analyze_calendar_done" => CalendarPartitions

\* main has folded three events, two of them under one label and one of them
\* with a malformed duration, into both work-relevant and excluded categories
C9_Witness ==
    /\ agg_pc = "main_done"
    /\ Len(agg_events) = MaxEvents
    /\ \E i \in 1..Len(agg_events) : agg_events[i] = EvReminder
    /\ \E c \in DOMAIN output[1].by_category : output[1].by_category[c].count = 2
    /\ main_totals[1].work_events > 0
    /\ main_totals[1].excluded_events > 0
    /\ main_totals[1].work_hours > 0

\* the person of an attendee entry is the key analyze_stakeholders files it under
AppearsIn(k, e) ==
    \E j \in 1..Len(e.attendees) :
        ~is_self(e.attendees[j].email) /\ stakeholder_key(e.attendees[j]) = k

\* the positions of the work-relevant events in which k appears as an attendee
EventsWith(k) ==
    {i \in 1..Len(agg_events) :
        is_work_relevant(agg_events[i]) /\ AppearsIn(k, agg_events[i])}

\* C10: when analyze_stakeholders has folded an event sequence, every
\* stakeholder's hours are the summed durations of the work-relevant events in
\* which that person appears as an attendee, each such event counted once, the
\* count is the number of those events, and the viewing user has no record.
C10_StakeholderCountsEachEventOnce ==
    agg_pc = "analyze_stakeholders_done" =>
        /\ \A k \in DOMAIN stakeholder_meetings :
            /\ stakeholder_meetings[k].count = Cardinality(EventsWith(k))
            /\ stakeholder_meetings[k].hours = DurationOver(agg_events, EventsWith(k))
        /\ \A k \in DOMAIN stakeholder_meetings :
            \E i \in 1..Len(agg_events) : AppearsIn(k, agg_events[i])
        /\ ViewerEmail \notin DOMAIN stakeholder_meetings

\* analyze_calendar's loop consumes the next event
CalendarConsumes == agg_pc = "analyze_calendar" /\ agg_i' = agg_i + 1

\* the duration that loop iteration added to its category's hours
AddedHours ==
    LET cat == categorize_event(agg_events[agg_i + 1])
    IN stats'.total_hours_by_category[cat] - dict_get(stats.total_hours_by_category, cat, 0)

\* C12: get_duration_hours never returns a negative value: the duration that a
\* fold obtains for an event is never below zero, also when the event's end
\* precedes its start.
C12_DurationNeverNegative == [][CalendarConsumes => AddedHours >= 0]_vars

\* C13: no reporting step faults on a zero denominator: print_analysis, the
\* work-vs-excluded summary of main, the recurring/ad-hoc split of
\* print_stakeholder_report and show_summary's average never raise.
C13_ZeroDenominatorsNeverFault ==
    agg_pc \notin {"print_analysis_raised", "main_raised",
                   "print_stakeholder_report_raised", "show_summary_raised"}

\* the summed counts of a by_* view
ViewCount(view) == sum_of([k \in DOMAIN view |-> view[k].count], DOMAIN view)

\* C14: analyze_time_patterns counts every work-relevant event in the by-month
\* view as in every other view, so the by_month counts sum to the number of
\* work-relevant events, whether or not an event's start can be read.
C14_ByMonthCountsEveryEvent ==
    agg_pc = "analyze_time_patterns_done" =>
        /\ ViewCount(time_stats.by_day_of_week) = Len(work_events)
        /\ ViewCount(time_stats.by_time_of_day) = Len(work_events)
        /\ ViewCount(time_stats.by_month) = Len(work_events)

\* title keywords of the rules that categorize_event_final tries before the
\* customer rule
HigherPriorityKeywords ==
    PtoKeywords \cup
    {<<"f","o","c","u","s"," ","f","r","i","d","a","y">>, <<"l","a","p","t","o","p">>, <<"i","t"," ","s","u","p","p","o","r","t">>, <<"s","e","t","u","p">>, <<"i","n","f","o","w","o","r","k","s"," ","i","c","m"," ","c","l","o","u","d">>,
     <<"d","e","n","t","i","s","t">>, <<"d","o","c","t","o","r">>, <<"p","e","r","s","o","n","a","l"," ","b","o","o","k","i","n","g","s">>, <<"l","u","n","c","h">>, <<"b","r","e","a","k","f","a","s","t">>, <<"g","y","m">>,
     <<"w","o","r","k","o","u","t">>, <<"e","x","e","r","c","i","s","e">>}

\* the customer example: accepted, busy, 09:00 to 10:00, the viewer and Jane Doe
\* of acme.com attending, 'customer' in the title and no keyword of an earlier rule
CustomerExample(e) ==
    /\ e.status = <<"A","C","C","E","P","T","E","D">>
    /\ e.busy_status = <<"B","U","S","Y">>
    /\ e.transp = <<>>
    /\ e.dtstart = <<"D","T","S","T","A","R","T",":","2","0","2","5","0","1","0","1","T","0","9","0","0","0","0">>
    /\ e.dtend = <<"D","T","E","N","D",":","2","0","2","5","0","1","0","1","T","1","0","0","0","0","0">>
    /\ Len(e.attendees) = 2
    /\ e.attendees[1].email = ViewerEmail
    /\ e.attendees[2].email = <<"j","a","n","e","@","a","c","m","e",".","c","o","m">>
    /\ e.attendees[2].name = <<"J","a","n","e"," ","D","o","e">>
    /\ contains(lower(e.summary), <<"c","u","s","t","o","m","e","r">>)
    /\ ~any_in(lower(e.summary), HigherPriorityKeywords)

\* what Jane Doe's record gains from one customer example
JaneGains(before, after) ==
    LET old == dict_get(before, <<"J","a","n","e"," ","D","o","e">>, new_stakeholder)
    IN /\ DOMAIN after = (DOMAIN before) \cup {<<"J","a","n","e"," ","D","o","e">>}
       /\ \A k \in DOMAIN before : k # <<"J","a","n","e"," ","D","o","e">> => after[k] = before[k]
       /\ after[<<"J","a","n","e"," ","D","o","e">>].count = old.count + 1
       /\ after[<<"J","a","n","e"," ","D","o","e">>].hours = old.hours + Hour
       /\ after[<<"J","a","n","e"," ","D","o","e">>].companies = old.companies \cup {<<"A","c","m","e">>}

\* C15: the customer example is labelled customer_external by main, passes the
\* work-relevant filter of analyze_stakeholders, and makes stakeholder 'Jane
\* Doe' gain exactly count 1 and one hour with organization 'Acme', while the
\* viewer gains no record.
C15_CustomerExample ==
    [][/\ (agg_pc = "main" /\ agg_i' = agg_i + 1
              /\ CustomerExample(agg_events[agg_i + 1])) =>
            categorized' =
                dict_put(categorized, <<"c","u","s","t","o","m","e","r","_","e","x","t","e","r","n","a","l">>,
                         Append(dict_get(categorized, <<"c","u","s","t","o","m","e","r","_","e","x","t","e","r","n","a","l">>, <<>>),
                                agg_events[agg_i + 1]))
       /\ (agg_pc = "start" /\ agg_pc' = "analyze_stakeholders") =>
            \A i \in 1..Len(agg_events) :
                CustomerExample(agg_events[i]) =>
                    \E j \in 1..Len(work_events') : work_events'[j] = agg_events[i]
       /\ (agg_pc = "analyze_stakeholders" /\ agg_i' = agg_i + 1
              /\ CustomerExample(work_events[agg_i + 1])) =>
            JaneGains(stakeholder_meetings, stakeholder_meetings')]_vars

\* analyze_stakeholders has folded a list that holds the customer example after
\* another event with Jane: she has a record with organization Acme counting
\* more than one meeting, and the viewer has none
C15_Witness ==
    /\ agg_pc = "analyze_stakeholders_done"
    /\ Len(work_events) >= 2
    /\ CustomerExample(work_events[Len(work_events)])
    /\ <<"J","a","n","e"," ","D","o","e">> \in DOMAIN stakeholder_meetings
    /\ stakeholder_meetings[<<"J","a","n","e"," ","D","o","e">>].count >= 2
    /\ <<"A","c","m","e">> \in stakeholder_meetings[<<"J","a","n","e"," ","D","o","e">>].companies
    /\ <<"D","a","n","i","e","l"," ","M","o","r","e","i","r","a">> \notin DOMAIN stakeholder_meetings

----------------------------------------------------------------------------
(* The company view of analyze_time_patterns *)

\* analyze_time_patterns folds the next work-relevant event
PatternsConsumes == agg_pc = "analyze_time_patterns" /\ agg_i' = agg_i + 1

\* the distinct organizations of an event's attendees
Organizations(e) ==
    {extract_company_from_email(e.attendees[j].email) : j \in 1..Len(e.attendees)}

\* company_share counts in sixths of a second
Sixths == 6

\* a company's entry of the view before the fold
CompanyBefore(c) == dict_get(time_stats.by_company, c, [count |-> 0, hours |-> 0])

\* C22: for a work-relevant event with k distinct attendee organizations the
\* fold adds 1 to the count and duration / k to the hours of each of them, once
\* per organization and to no other entry, so the hours it adds sum to the
\* event's duration; k is at least 1.
C22_CompanySplit ==
    [][PatternsConsumes =>
          LET e == work_events[agg_i + 1]
              orgs == Organizations(e)
              k == Cardinality(orgs)
              duration == get_duration_hours(e) * Sixths
              after == time_stats'.by_company
          IN /\ k >= 1
             /\ DOMAIN after = (DOMAIN time_stats.by_company) \cup orgs
             /\ \A c \in orgs :
                   /\ after[c].count = CompanyBefore(c).count + 1
                   /\ (after[c].hours - CompanyBefore(c).hours) * k = duration
             /\ sum_of([c \in orgs |-> after[c].hours - CompanyBefore(c).hours], orgs)
                   = duration
             /\ \A c \in (DOMAIN after) \ orgs : after[c] = time_stats.by_company[c]]_vars

\* the ten-minute sync, whose three attendee lines name two organizations, has
\* been folded: each organization has one meeting and five minutes
C22_Witness ==
    /\ agg_pc = "analyze_time_patterns_done"
    /\ work_events = <<EvSync>>
    /\ Len(EvSync.attendees) = 3
    /\ DOMAIN time_stats.by_company = {<<"A","u","t","o","d","e","s","k"," ","(","I","n","t","e","r","n","a","l",")">>, <<"A","c","m","e">>}
    /\ \A c \in DOMAIN time_stats.by_company :
          time_stats.by_company[c] = [count |-> 1, hours |-> 300 * Sixths]

----------------------------------------------------------------------------
(* Consistency of the stakeholder records and of the time views *)

\* the values of a dict of numbers, summed
DictSum(d) == sum_of(d, DOMAIN d)

\* C28: every stakeholder record satisfies as_organizer + as_attendee = count,
\* its per-meeting-type counts sum to count, and count is at least 1.
C28_StakeholderRecordConsistent ==
    \A key \in DOMAIN stakeholder_meetings :
        LET rec == stakeholder_meetings[key]
        IN /\ rec.as_organizer + rec.as_attendee = rec.count
           /\ DictSum(rec.meeting_types) = rec.count
           /\ rec.count >= 1

\* analyze_stakeholders has returned a record of Jane Doe that counts meetings
\* the viewer organized and meetings someone else organized, of two types
C28_Witness ==
    /\ agg_pc = "analyze_stakeholders_done"
    /\ <<"J","a","n","e"," ","D","o","e">> \in DOMAIN stakeholder_meetings
    /\ stakeholder_meetings[<<"J","a","n","e"," ","D","o","e">>].as_organizer >= 1
    /\ stakeholder_meetings[<<"J","a","n","e"," ","D","o","e">>].as_attendee >= 1
    /\ Cardinality(DOMAIN stakeholder_meetings[<<"J","a","n","e"," ","D","o","e">>].meeting_types) >= 2

\* the hours of a view, summed over its keys
ViewHours(view) == sum_of([k \in DOMAIN view |-> view[k].hours], DOMAIN view)

\* the work-relevant events analyze_time_patterns has folded so far
Folded == SubSeq(work_events, 1, agg_i)

\* C29: in analyze_time_patterns the counts summed over by_day_of_week,
\* by_time_of_day, by_meeting_type, by_location and meeting_size_distribution,
\* and recurring + adhoc, each equal the number of work-relevant events; the
\* hours summed over by_day_of_week, by_time_of_day, by_meeting_type and
\* by_location, and recurring_hours + adhoc_hours, each equal their total
\* duration.
C29_TimeViewsConserve ==
    agg_pc \in {"analyze_time_patterns", "analyze_time_patterns_done"} =>
        /\ agg_pc = "analyze_time_patterns_done" => agg_i = Len(work_events)
        /\ \A view \in {time_stats.by_day_of_week, time_stats.by_time_of_day,
                        time_stats.by_meeting_type, time_stats.by_location} :
              /\ ViewCount(view) = Len(Folded)
              /\ ViewHours(view) = sum_durations(Folded)
        /\ DictSum(time_stats.meeting_size_distribution) = Len(Folded)
        /\ time_stats.recurring_vs_adhoc.recurring + time_stats.recurring_vs_adhoc.adhoc
              = Len(Folded)
        /\ time_stats.recurring_vs_adhoc.recurring_hours
              + time_stats.recurring_vs_adhoc.adhoc_hours = sum_durations(Folded)

\* analyze_time_patterns has folded three events, recurring and ad hoc, of more
\* than one meeting type and with a total duration that is not zero
C29_Witness ==
    /\ agg_pc = "analyze_time_patterns_done"
    /\ Len(work_events) = MaxEvents
    /\ time_stats.recurring_vs_adhoc.recurring >= 1
    /\ time_stats.recurring_vs_adhoc.adhoc >= 1
    /\ Cardinality(DOMAIN time_stats.by_meeting_type) >= 2
    /\ sum_durations(work_events) # 0

----------------------------------------------------------------------------
(* The time-of-day bands, on events that differ only in their start *)

\* longest event list the time-pattern fold is run on here
MaxStarts == 2

\* the start fields the events are given
StartFields ==
    {<<"D","T","S","T","A","R","T",":","2","0","2","5","0","1","0","1","T","0","0","0","0","0","0">>, <<"D","T","S","T","A","R","T",":","2","0","2","5","0","1","0","1","T","0","5","0","0","0","0">>,
     <<"D","T","S","T","A","R","T",":","2","0","2","5","0","1","0","1","T","0","6","0","0","0","0">>, <<"D","T","S","T","A","R","T",":","2","0","2","5","0","1","0","1","T","0","8","5","9","5","9">>,
     <<"D","T","S","T","A","R","T",":","2","0","2","5","0","1","0","1","T","0","9","0","0","0","0">>, <<"D","T","S","T","A","R","T",":","2","0","2","5","0","1","0","1","T","1","1","3","0","0","0">>,
     <<"D","T","S","T","A","R","T",":","2","0","2","5","0","1","0","1","T","1","2","0","0","0","0">>, <<"D","T","S","T","A","R","T",":","2","0","2","5","0","1","0","1","T","1","3","4","5","0","0">>,
     <<"D","T","S","T","A","R","T",":","2","0","2","5","0","1","0","1","T","1","4","0","0","0","0">>, <<"D","T","S","T","A","R","T",":","2","0","2","5","0","1","0","1","T","1","6","0","0","0","0">>,
     <<"D","T","S","T","A","R","T",":","2","0","2","5","0","1","0","1","T","1","7","0","0","0","0">>, <<"D","T","S","T","A","R","T",":","2","0","2","5","0","1","0","1","T","1","9","3","0","0","0">>,
     <<"D","T","S","T","A","R","T",":","2","0","2","5","0","1","0","1","T","2","0","0","0","0","0">>, <<"D","T","S","T","A","R","T",":","2","0","2","5","0","1","0","1","T","2","3","5","9","5","9">>,
     <<"D","T","S","T","A","R","T",":","2","0","2","5","0","1","0","1","T","2","4","0","0","0","0">>, <<"D","T","S","T","A","R","T",":","2","0","2","5","0","1","0","1","T","9","9","0","0","0","0">>,
     <<"D","T","S","T","A","R","T",";","V","A","L","U","E","=","D","A","T","E",":","2","0","2","5","0","1","0","1">>, <<>>}

\* the customer meeting with each of these starts
StartSamples == {[EvCustomer EXCEPT !.dtstart = s] : s \in StartFields}

StartLists == UNION {[1..n -> StartSamples] : n \in 0..MaxStarts}

InitTimeOfDay ==
    /\ agg_pc = "start"
    /\ agg_events \in StartLists
    /\ agg_i = 0
    /\ categorized = <<>>
    /\ main_totals = <<>>
    /\ output = <<>>
    /\ cal_categories = <<>>
    /\ stats = EmptyStats
    /\ work_events = <<>>
    /\ stakeholder_meetings = <<>>
    /\ organizer_stats = <<>>
    /\ time_stats = new_time_stats
    /\ ParserIdle
    /\ ClassifierIdle

NextTimeOfDay == TimePatternsStart \/ TimePatternsStep \/ TimePatternsFinish

SpecTimeOfDay == InitTimeOfDay /\ [][NextTimeOfDay]_vars

\* the two hour digits of a start written DTSTART:YYYYMMDDTHHMMSS, and -1 for a
\* start with no time part
StartHour(e) ==
    IF Len(e.dtstart) = 23 THEN to_int(SubSeq(e.dtstart, 18, 19)) ELSE -1

\* the band the hour belongs to
BandOf(h) ==
    IF h < 0 \/ h > 23 THEN <<"U","n","k","n","o","w","n">>
    ELSE IF h <= 5 THEN <<"N","i","g","h","t"," ","(","0","0",":","0","0","-","0","6",":","0","0",")">>
    ELSE IF h <= 8 THEN <<"E","a","r","l","y"," ","M","o","r","n","i","n","g"," ","(","0","6",":","0","0","-","0","9",":","0","0",")">>
    ELSE IF h <= 11 THEN <<"M","o","r","n","i","n","g"," ","(","0","9",":","0","0","-","1","2",":","0","0",")">>
    ELSE IF h <= 13 THEN <<"L","u","n","c","h"," ","(","1","2",":","0","0","-","1","4",":","0","0",")">>
    ELSE IF h <= 16 THEN <<"A","f","t","e","r","n","o","o","n"," ","(","1","4",":","0","0","-","1","7",":","0","0",")">>
    ELSE IF h <= 19 THEN <<"E","v","e","n","i","n","g"," ","(","1","7",":","0","0","-","2","0",":","0","0",")">>
    ELSE <<"N","i","g","h","t"," ","(","2","0",":","0","0","-","2","4",":","0","0",")">>

\* C21: get_time_of_day maps the start hour to its band (0-5 Night, 6-8 Early
\* Morning, 9-11 Morning, 12-13 Lunch, 14-16 Afternoon, 17-19 Evening, 20-23
\* Night) and gives 'Unknown' when the start has no time part or its hour
\* digits are 24 to 99: each folded event is counted under exactly that band.
C21_HourBands ==
    agg_pc = "analyze_time_patterns_done" =>
        /\ DOMAIN time_stats.by_time_of_day =
              {BandOf(StartHour(work_events[i])) : i \in 1..Len(work_events)}
        /\ \A b \in DOMAIN time_stats.by_time_of_day :
              time_stats.by_time_of_day[b].count =
                  Cardinality({i \in 1..Len(work_events) :
                                  BandOf(StartHour(work_events[i])) = b})

----------------------------------------------------------------------------
(* The sample_events lists, on event lists longer than a sample *)

\* longest event list the category folds are run on here
MaxSampled == 6

\* a second customer meeting, of half an hour
EvDemo ==
    DecodeFields(<<
        <<"S","U","M","M","A","R","Y",":","C","l","i","e","n","t"," ","D","e","m","o">>,
        <<"D","T","S","T","A","R","T",":","2","0","2","5","0","1","0","6","T","1","1","0","0","0","0">>,
        <<"D","T","E","N","D",":","2","0","2","5","0","1","0","6","T","1","1","3","0","0","0">>,
        <<"O","R","G","A","N","I","Z","E","R",";","C","N","=","J","a","n","e"," ","D","o","e",":","m","a","i","l","t","o",":","j","a","n","e","@","a","c","m","e",".","c","o","m">>,
        <<"A","T","T","E","N","D","E","E",";","C","N","=","D","a","n","i","e","l"," ","M","o","r","e","i","r","a",";","P","A","R","T","S","T","A","T","=","A","C","C","E","P","T","E","D",":","m","a","i","l","t","o",":","d","a","n","i","e","l",".","m","o","r","e","i","r","a","@","a","u","t","o","d","e","s","k",".","c","o","m">>,
        <<"A","T","T","E","N","D","E","E",";","C","N","=","J","a","n","e"," ","D","o","e",";","P","A","R","T","S","T","A","T","=","A","C","C","E","P","T","E","D",":","m","a","i","l","t","o",":","j","a","n","e","@","a","c","m","e",".","c","o","m">>,
        <<"X","-","M","I","C","R","O","S","O","F","T","-","C","D","O","-","B","U","S","Y","S","T","A","T","U","S",":","B","U","S","Y">>>>)

SampledEvents == {EvCustomer, EvDemo, EvSync}

SampledLists == UNION {[1..n -> SampledEvents] : n \in 0..MaxSampled}

InitSamples ==
    /\ agg_pc = "start"
    /\ agg_events \in SampledLists
    /\ agg_i = 0
    /\ categorized = <<>>
    /\ main_totals = <<>>
    /\ output = <<>>
    /\ cal_categories = <<>>
    /\ stats = EmptyStats
    /\ work_events = <<>>
    /\ stakeholder_meetings = <<>>
    /\ organizer_stats = <<>>
    /\ time_stats = new_time_stats
    /\ ParserIdle
    /\ ClassifierIdle

NextSamples ==
    \/ CalendarStart \/ CalendarStep \/ CalendarFinish
    \/ MainStart \/ MainStep \/ MainFinish

SpecSamples == InitSamples /\ [][NextSamples]_vars

\* the events of evs that label_of gives the label c, in the order of evs
RECURSIVE OfCategory(_, _, _)
OfCategory(evs, label_of, c) ==
    IF evs = <<>> THEN <<>>
    ELSE (IF label_of[Head(evs)] = c THEN <<Head(evs)>> ELSE <<>>)
             \o OfCategory(Tail(evs), label_of, c)

\* the first five of s, or all of s when it has fewer
FirstFive(s) == IF Len(s) <= SampleSize THEN s ELSE SubSeq(s, 1, SampleSize)

SampledFinalLabel == [e \in SampledEvents |-> categorize_event_final(e)]
SampledCalendarLabel == [e \in SampledEvents |-> categorize_event(e)]

\* the sample entries of analyze_calendar for the events of s
CalendarEntries(s) == [i \in 1..Len(s) |-> calendar_sample(s[i])]

\* the sample entries of main for the events of s
MainEntries(s) ==
    [i \in 1..Len(s) |->
        [summary |-> calendar_sample(s[i]).summary,
         duration_hours |-> calendar_sample(s[i]).duration_hours]]

\* C23: for any event sequence, the sample_events of a category are exactly the
\* first min(5, count) events of that category, in the order of the sequence,
\* in the statistics of analyze_calendar and in the output of main.
C23_SamplesAreFirstFive ==
    /\ agg_pc = "analyze_calendar_done" =>
          \A c \in DOMAIN stats.by_category :
              stats.by_category[c].sample_events =
                  CalendarEntries(FirstFive(OfCategory(agg_events, SampledCalendarLabel, c)))
    /\ agg_pc = "main_done" =>
          \A c \in DOMAIN output[1].by_category :
              output[1].by_category[c].sample_events =
                  MainEntries(FirstFive(OfCategory(agg_events, SampledFinalLabel, c)))

\* analyze_calendar has folded six customer meetings, the second and the sixth
\* of them the demo: the category counts six and samples five, the demo second
C23_Witness ==
    /\ agg_pc = "analyze_calendar_done"
    /\ agg_events = <<EvCustomer, EvDemo, EvCustomer, EvCustomer, EvCustomer, EvDemo>>
    /\ stats.by_category[<<"c","u","s","t","o","m","e","r","_","e","x","t","e","r","n","a","l">>].count = 6
    /\ Len(stats.by_category[<<"c","u","s","t","o","m","e","r","_","e","x","t","e","r","n","a","l">>].sample_events) = SampleSize
    /\ stats.by_category[<<"c","u","s","t","o","m","e","r","_","e","x","t","e","r","n","a","l">>].sample_events[2].summary = <<"C","l","i","e","n","t"," ","D","e","m","o">>
    /\ stats.by_category[<<"c","u","s","t","o","m","e","r","_","e","x","t","e","r","n","a","l">>].sample_events[5].summary = <<"C","u","s","t","o","m","e","r"," ","Q","B","R">>
====
